---- MODULE Spec2Model ----
(***************************************************************************)
(* A model of the codec layer of hd2-lut-editor: the HDR pixel planes      *)
(* (hdrColors), the OpenEXR codec (openexr) and the DDS codec (dds).       *)
(*                                                                         *)
(* The module holds one state machine per component.  Each component has   *)
(* its own variables, its own Init/Next and its own specification; a       *)
(* specification keeps the variables of the other components idle.         *)
(*                                                                         *)
(* Go slices are 0-indexed, TLA+ sequences 1-indexed: element i of a Go    *)
(* slice s is s[i+1] here.  A byte is a number in 0..255.                  *)
(***************************************************************************)
EXTENDS Integers, Sequences, FiniteSets, TLC

VARIABLES
    zipIn,      \* the bytes handed to decompressZip after inflate
    zipMid,     \* the result of interleave(reconstruct(zipIn))
    zipOut,     \* the result of deconstruct(reorder(zipMid))
    zipPc,      \* "idle" | "in" | "decompressed" | "recompressed"
    allocArgs,  \* [bpp, dx, dy]: the arguments of pixelBufferLength
    allocRet,   \* [panic, length]: how pixelBufferLength ended
    allocPc,    \* "idle" | "call" | "returned"
    hdrPc,          \* "idle" | "preamble" | "attrs" | "table" | "done"
    requiredFields, \* loadEXRHeader's requiredFields slice
    attrsSeen,      \* the attribute names read from the stream so far
    hdrTerminated,  \* whether the empty name ending the attributes was read
    hdrRet,         \* [ok, err, missing]: how loadEXRHeader ended
    imgKind,        \* which of the three plane types the planes are
    rootPix,        \* the buffer allocated by the constructor, from index 0
    planes,         \* <<the constructed plane>> or <<it, a SubImage view>>
    planeRet,       \* the last call on a plane and its outcome
    planeCalls,     \* how many calls of SubImage, Set and SetGray were made
    lastSet,        \* the last call of Set
    ddsPc,          \* "idle" | "img" | "stream" | "done"
    ddsImg,         \* the image at hand: to be written, or as decoded
    ddsStream,      \* the file at hand: as written, or to be read
    ddsSrc,         \* the image of the last call of WriteHDR
    ddsRet,         \* the last call and its error ("" for nil)
    exrPc,          \* "idle" | "img" | "file" | "loaded" | "done"
    exrImg,         \* the plane handed to openexr.WriteHDR
    exrFile,        \* the file WriteHDR wrote
    exrLoaded,      \* the *OpenEXR LoadOpenEXR returned
    exrRet,         \* the last call and how it ended
    UndoStack,      \* UndoRedoStack.UndoStack
    RedoStack,      \* UndoRedoStack.RedoStack
    timer,          \* UndoRedoStack.timer: 0 for nil, or the timer it points to
    timers,         \* the timers time.AfterFunc made and their callbacks
    pushes,         \* how many times Push was entered
    cleared,        \* what pushes was at the last Clear
    undoRet,        \* the last call on the stack from the editor's threads
    undoPrev,       \* the call before it, if it was an Undo
    backgroundTasks, \* the TaskMap of run: TaskID -> the status it points to
    statuses,       \* the BackgroundStatus objects allocated so far
    taskRet         \* the last step of the editor on the task map

zipVars   == <<zipIn, zipMid, zipOut, zipPc>>
allocVars == <<allocArgs, allocRet, allocPc>>
hdrVars   == <<hdrPc, requiredFields, attrsSeen, hdrTerminated, hdrRet>>
planeVars == <<imgKind, rootPix, planes, planeRet, planeCalls, lastSet>>
ddsVars   == <<ddsPc, ddsImg, ddsStream, ddsSrc, ddsRet>>
exrVars   == <<exrPc, exrImg, exrFile, exrLoaded, exrRet>>
undoVars  == <<UndoStack, RedoStack, timer, timers, pushes, cleared, undoRet,
               undoPrev>>
taskVars  == <<backgroundTasks, statuses, taskRet>>
vars      == <<zipVars, allocVars, hdrVars, planeVars, ddsVars, exrVars, undoVars,
               taskVars>>

(***************************************************************************)
(* Idle components.                                                        *)
(***************************************************************************)
ZipIdle   == zipIn = <<>> /\ zipMid = <<>> /\ zipOut = <<>> /\ zipPc = "idle"
AllocIdle == allocArgs = <<>> /\ allocRet = <<>> /\ allocPc = "idle"
HdrIdle   ==
    /\ hdrPc = "idle"
    /\ requiredFields = <<>>
    /\ attrsSeen = {}
    /\ hdrTerminated = FALSE
    /\ hdrRet = <<>>
PlaneIdle ==
    /\ imgKind = "idle"
    /\ rootPix = <<>>
    /\ planes = <<>>
    /\ planeRet = [op |-> "idle"]
    /\ planeCalls = <<>>
    /\ lastSet = <<>>
DdsIdle ==
    /\ ddsPc = "idle"
    /\ ddsImg = <<>>
    /\ ddsStream = <<>>
    /\ ddsSrc = <<>>
    /\ ddsRet = <<>>
ExrIdle ==
    /\ exrPc = "idle"
    /\ exrImg = <<>>
    /\ exrFile = <<>>
    /\ exrLoaded = <<>>
    /\ exrRet = <<>>
UndoIdle ==
    /\ UndoStack = <<>>
    /\ RedoStack = <<>>
    /\ timer = 0
    /\ timers = <<>>
    /\ pushes = 0
    /\ cleared = 0
    /\ undoRet = [op |-> "idle"]
    /\ undoPrev = [op |-> "idle"]
TaskIdle ==
    /\ backgroundTasks = <<>>
    /\ statuses = <<>>
    /\ taskRet = [op |-> "idle"]

\* Every component but `own` is idle / stays as it is.
OthersIdle(own) ==
    /\ IF own = "zip" THEN TRUE ELSE ZipIdle
    /\ IF own = "alloc" THEN TRUE ELSE AllocIdle
    /\ IF own = "hdr" THEN TRUE ELSE HdrIdle
    /\ IF own = "plane" THEN TRUE ELSE PlaneIdle
    /\ IF own = "dds" THEN TRUE ELSE DdsIdle
    /\ IF own = "exr" THEN TRUE ELSE ExrIdle
    /\ IF own = "undo" THEN TRUE ELSE UndoIdle
    /\ IF own = "task" THEN TRUE ELSE TaskIdle

OthersUnchanged(own) ==
    /\ IF own = "zip" THEN TRUE ELSE UNCHANGED zipVars
    /\ IF own = "alloc" THEN TRUE ELSE UNCHANGED allocVars
    /\ IF own = "hdr" THEN TRUE ELSE UNCHANGED hdrVars
    /\ IF own = "plane" THEN TRUE ELSE UNCHANGED planeVars
    /\ IF own = "dds" THEN TRUE ELSE UNCHANGED ddsVars
    /\ IF own = "exr" THEN TRUE ELSE UNCHANGED exrVars
    /\ IF own = "undo" THEN TRUE ELSE UNCHANGED undoVars
    /\ IF own = "task" THEN TRUE ELSE UNCHANGED taskVars

(***************************************************************************)
(* openexr: the ZIP predictor and byte (de)interleaving.                   *)
(***************************************************************************)

\* The longest buffer of the compression-law check.
MaxBufLen == 4

\* The byte values the buffers are built from.
ByteSamples == {0, 1, 128, 255}

\* Go's byte(int): the low eight bits.
byte(n) == n % 256

RECURSIVE reconstructRun(_, _, _, _)
\* The loop of reconstruct over data[lo..hi] (1-based), given the output
\* before lo: output[i] = byte(output[i-1] + data[i] - 128).  The range is
\* run as two halves, the second starting from the last output of the first.
reconstructRun(data, lo, hi, before) ==
    IF lo = hi THEN <<byte(before + data[lo] - 128)>>
    ELSE LET mid   == (lo + hi) \div 2
             left  == reconstructRun(data, lo, mid, before)
             right == reconstructRun(data, mid + 1, hi, left[Len(left)])
         IN  left \o right

\* reconstruct: output[0] = data[0]; output[i] = output[i-1] + data[i] - 128.
reconstruct(data) ==
    IF Len(data) <= 1 THEN data
    ELSE <<data[1]>> \o reconstructRun(data, 2, Len(data), data[1])

\* interleave: for i < len/2, output[2i] = data[i] and
\* output[2i+1] = data[i + (len+1)/2]; every other cell keeps make's zero.
interleave(data) ==
    LET n == Len(data)
    IN  [k \in 1..n |->
            LET j == k - 1
                i == j \div 2
            IN  IF i < n \div 2
                THEN IF j % 2 = 0 THEN data[i + 1]
                     ELSE data[i + ((n + 1) \div 2) + 1]
                ELSE 0]

\* deconstruct: output[0] = data[0]; output[i] = data[i] - p + 0x180, where
\* p is the raw predecessor byte data[i-1].
deconstruct(data) ==
    LET n == Len(data)
    IN  [k \in 1..n |->
            IF k = 1 THEN data[1]
            ELSE byte(data[k] - data[k - 1] + 384)]

\* reorder: for i < len/2, output[i] = data[2i] and
\* output[i + (len+1)/2] = data[2i+1]; every other cell keeps make's zero.
reorder(data) ==
    LET n    == Len(data)
        half == (n + 1) \div 2
    IN  [k \in 1..n |->
            LET j == k - 1
            IN  IF j < n \div 2 THEN data[2 * j + 1]
                ELSE IF j >= half /\ j - half < n \div 2
                     THEN data[2 * (j - half) + 2]
                     ELSE 0]

RECURSIVE SeqsUpTo(_, _)
\* All sequences over S of length 1..n.
SeqsUpTo(S, n) ==
    IF n = 0 THEN {}
    ELSE SeqsUpTo(S, n - 1) \cup [1..n -> S]

ZipInit ==
    /\ zipIn \in SeqsUpTo(ByteSamples, MaxBufLen)
    /\ zipMid = <<>>
    /\ zipOut = <<>>
    /\ zipPc = "in"

\* decompressZip after inflate: reconstruct, then interleave.
DecompressZipTail ==
    /\ zipPc = "in"
    /\ zipMid' = interleave(reconstruct(zipIn))
    /\ zipPc' = "decompressed"
    /\ UNCHANGED <<zipIn, zipOut>>

\* compressZip before deflate: reorder, then deconstruct.
CompressZipHead ==
    /\ zipPc = "decompressed"
    /\ zipOut' = deconstruct(reorder(zipMid))
    /\ zipPc' = "recompressed"
    /\ UNCHANGED <<zipIn, zipMid>>

ZipNext ==
    \/ DecompressZipTail /\ OthersUnchanged("zip")
    \/ CompressZipHead /\ OthersUnchanged("zip")

InitZip == ZipInit /\ OthersIdle("zip")

SpecZip == InitZip /\ [][ZipNext]_vars

\* C3: for every byte buffer b of length >= 1, odd lengths and length 1
\* included, deconstruct(reorder(interleave(reconstruct(b)))) = b.
C3_InverseLaw ==
    zipPc = "recompressed" => zipOut = zipIn

(***************************************************************************)
(* hdrColors: pixelBufferLength / mul3NonNeg.                              *)
(*                                                                         *)
(* Go's int and uint64 are 64 bits wide.  The model keeps the arithmetic   *)
(* and scales the word to WordBits bits: int is -2^(WordBits-1) ..         *)
(* 2^(WordBits-1)-1 and bits.Mul64 yields the two WordBits-wide halves of  *)
(* the product.                                                            *)
(***************************************************************************)

WordBits == 7

RECURSIVE Pow2(_)
Pow2(n) == IF n = 0 THEN 1 ELSE 2 * Pow2(n - 1)

WordMod == Pow2(WordBits)
MaxInt  == Pow2(WordBits - 1) - 1

nrgba128UPixelBytes == 16
nrgba128FPixelBytes == 16
nrgba64FPixelBytes  == 8

\* int(lo): the signed reading of an unsigned word.
AsInt(u) == IF u >= Pow2(WordBits - 1) THEN u - WordMod ELSE u

\* uint64(a): the unsigned reading of a signed word.
AsUint(a) == a % WordMod

\* mul3NonNeg with the first overflow check (hi != 0 after x*y) left out.
mul3NonNegNoHiCheck(x, y, z) ==
    IF (x < 0) \/ (y < 0) \/ (z < 0) THEN -1
    ELSE LET lo1 == (x * y) % WordMod
             p2  == lo1 * z
             lo2 == p2 % WordMod
             a   == AsInt(lo2)
         IN  IF p2 \div WordMod # 0 THEN -1
             ELSE IF (a < 0) \/ (AsUint(a) # lo2) THEN -1
             ELSE a

\* mul3NonNeg: x*y*z, or -1 if an argument is negative or the computation
\* overflows.  bits.Mul64 returns the high and low words of a product.
mul3NonNeg(x, y, z) ==
    IF (x < 0) \/ (y < 0) \/ (z < 0) THEN -1
    ELSE LET p1  == x * y
             hi1 == p1 \div WordMod
             lo1 == p1 % WordMod
             p2  == lo1 * z
             hi2 == p2 \div WordMod
             lo2 == p2 % WordMod
             a   == AsInt(lo2)
         IN  IF hi1 # 0 THEN -1
             ELSE IF hi2 # 0 THEN -1
             ELSE IF (a < 0) \/ (AsUint(a) # lo2) THEN -1
             ELSE a

\* pixelBufferLength: panics when mul3NonNeg reports -1.
pixelBufferLength(bytesPerPixel, dx, dy) ==
    LET totalLength == mul3NonNeg(bytesPerPixel, dx, dy)
    IN  IF totalLength < 0 THEN [panic |-> TRUE, length |-> 0]
        ELSE [panic |-> FALSE, length |-> totalLength]

AllocInit ==
    /\ allocArgs \in [bpp : {nrgba64FPixelBytes, nrgba128FPixelBytes},
                      dx  : (-1)..MaxInt,
                      dy  : (-1)..MaxInt]
    /\ allocRet = <<>>
    /\ allocPc = "call"

CallPixelBufferLength ==
    /\ allocPc = "call"
    /\ allocRet' = pixelBufferLength(allocArgs.bpp, allocArgs.dx, allocArgs.dy)
    /\ allocPc' = "returned"
    /\ UNCHANGED allocArgs

AllocNext == CallPixelBufferLength /\ OthersUnchanged("alloc")

InitAlloc == AllocInit /\ OthersIdle("alloc")

SpecAlloc == InitAlloc /\ [][AllocNext]_vars

AllocProduct == allocArgs.bpp * allocArgs.dx * allocArgs.dy

\* C6 as claimed: pixelBufferLength panics exactly when width or height is
\* negative or bytesPerPixel*width*height does not fit the signed integer,
\* and otherwise returns that product.
C6_PanicsIffProductUnrepresentable ==
    allocPc = "returned" =>
        IF allocArgs.dx < 0 \/ allocArgs.dy < 0 \/ AllocProduct > MaxInt
        THEN allocRet.panic
        ELSE ~allocRet.panic /\ allocRet.length = AllocProduct

\* C6 as amended: pixelBufferLength panics exactly when width or height is
\* negative, or bytesPerPixel*width does not fit the unsigned word, or
\* bytesPerPixel*width*height does not fit the signed integer; otherwise it
\* returns exactly the product.
C6_PanicsIffComputationOverflows ==
    allocPc = "returned" =>
        IF \/ allocArgs.dx < 0
           \/ allocArgs.dy < 0
           \/ allocArgs.bpp * allocArgs.dx >= WordMod
           \/ AllocProduct > MaxInt
        THEN allocRet.panic
        ELSE ~allocRet.panic /\ allocRet.length = AllocProduct

\* A zero-height rectangle so wide that bytesPerPixel*width leaves the word:
\* the product is 0, and the call panics.
C6_Witness ==
    /\ allocPc = "returned"
    /\ allocArgs.dy = 0
    /\ allocArgs.bpp * allocArgs.dx >= WordMod
    /\ allocRet.panic

(***************************************************************************)
(* openexr: loadEXRHeader, the attribute loop and the required fields.     *)
(*                                                                         *)
(* The stream is read a field at a time; each read either yields the next  *)
(* value (any value: the stream is the input) or fails.                    *)
(***************************************************************************)

EXR_MAGIC == 20000630

\* var requiredFields []string
RequiredFieldNames ==
    << "channels", "compression", "dataWindow", "displayWindow",
       "lineOrder", "pixelAspectRatio", "screenWindowCenter",
       "screenWindowWidth" >>

Range(s) == {s[i] : i \in DOMAIN s}

\* The attribute names a stream may carry: the required ones and two the
\* parser does not know.
AttrNames == Range(RequiredFieldNames) \cup {"comments", "owner"}

\* slices.Index: the 0-based index of the first v in s, or -1.
SlicesIndex(s, v) ==
    IF \E i \in DOMAIN s : s[i] = v
    THEN (CHOOSE i \in DOMAIN s : s[i] = v /\ \A j \in 1..(i - 1) : s[j] # v) - 1
    ELSE -1

\* A removal that also drops the element after index.
RemoveAtAndNext(s, index) ==
    SubSeq(s, 1, index) \o SubSeq(s, index + 3, Len(s))

\* append(s[:index], s[index+1:]...)
RemoveAt(s, index) ==
    SubSeq(s, 1, index) \o SubSeq(s, index + 2, Len(s))

HdrError(e) == [ok |-> FALSE, err |-> e, missing |-> <<>>]

HdrInit ==
    /\ hdrPc = "preamble"
    /\ requiredFields = <<>>
    /\ attrsSeen = {}
    /\ hdrTerminated = FALSE
    /\ hdrRet = <<>>

\* Magic, version and flag bytes; then requiredFields is initialised.
ReadPreamble ==
    /\ hdrPc = "preamble"
    /\ \E readOk \in BOOLEAN,
          magic \in {EXR_MAGIC, 0},
          version \in {1, 2},
          flags \in {0, 1} :
        IF ~readOk THEN
            /\ hdrPc' = "done"
            /\ hdrRet' = HdrError("read")
            /\ UNCHANGED requiredFields
        ELSE IF magic # EXR_MAGIC THEN
            /\ hdrPc' = "done"
            /\ hdrRet' = HdrError("invalid file magic")
            /\ UNCHANGED requiredFields
        ELSE IF version # 2 THEN
            /\ hdrPc' = "done"
            /\ hdrRet' = HdrError("unsupported EXR version")
            /\ UNCHANGED requiredFields
        ELSE IF flags # 0 THEN
            /\ hdrPc' = "done"
            /\ hdrRet' = HdrError("unsupported flags in EXR")
            /\ UNCHANGED requiredFields
        ELSE
            /\ hdrPc' = "attrs"
            /\ requiredFields' = RequiredFieldNames
            /\ UNCHANGED hdrRet
    /\ UNCHANGED <<attrsSeen, hdrTerminated>>

\* One turn of the attribute loop: name, type and size are read, the value
\* is parsed or skipped, and the name is struck off requiredFields.
ReadAttribute(name) ==
    /\ hdrPc = "attrs"
    /\ attrsSeen' = attrsSeen \cup {name}
    /\ LET index == SlicesIndex(requiredFields, name)
       IN  requiredFields' =
               IF index # -1 THEN RemoveAt(requiredFields, index)
               ELSE requiredFields
    /\ UNCHANGED <<hdrPc, hdrTerminated, hdrRet>>

\* The stream ends or a value cannot be read inside the attribute loop.
ReadAttributeFails ==
    /\ hdrPc = "attrs"
    /\ hdrPc' = "done"
    /\ hdrRet' = HdrError("read")
    /\ UNCHANGED <<requiredFields, attrsSeen, hdrTerminated>>

\* The empty name: the loop ends and the required fields are checked.
ReadTerminator ==
    /\ hdrPc = "attrs"
    /\ hdrTerminated' = TRUE
    /\ IF Len(requiredFields) > 0
       THEN /\ hdrPc' = "done"
            /\ hdrRet' = [ok |-> FALSE,
                          err |-> "exr missing required fields",
                          missing |-> requiredFields]
       ELSE /\ hdrPc' = "table"
            /\ UNCHANGED hdrRet
    /\ UNCHANGED <<requiredFields, attrsSeen>>

\* The offset table is read and the header returned.
ReadOffsetTable ==
    /\ hdrPc = "table"
    /\ hdrPc' = "done"
    /\ \E readOk \in BOOLEAN :
        hdrRet' = IF readOk THEN [ok |-> TRUE, err |-> "", missing |-> <<>>]
                  ELSE HdrError("read")
    /\ UNCHANGED <<requiredFields, attrsSeen, hdrTerminated>>

HdrNext ==
    \/ ReadPreamble /\ OthersUnchanged("hdr")
    \/ (\E name \in AttrNames : ReadAttribute(name)) /\ OthersUnchanged("hdr")
    \/ ReadAttributeFails /\ OthersUnchanged("hdr")
    \/ ReadTerminator /\ OthersUnchanged("hdr")
    \/ ReadOffsetTable /\ OthersUnchanged("hdr")

InitHdr == HdrInit /\ OthersIdle("hdr")

SpecHdr == InitHdr /\ [][HdrNext]_vars

\* The required names that did not occur, in the order of the declaration.
MissingRequired ==
    SelectSeq(RequiredFieldNames, LAMBDA n : n \notin attrsSeen)

\* C8: loadEXRHeader succeeds only if each of the eight required attributes
\* occurred in the attribute stream; when the attribute list ends with some
\* of them missing it fails with an error listing exactly the missing names,
\* whatever the order, the repeats and the unknown attributes in between.
C8_RequiredAttributes ==
    hdrPc = "done" =>
        /\ hdrRet.ok => Range(RequiredFieldNames) \subseteq attrsSeen
        /\ (hdrTerminated /\ MissingRequired # <<>>) =>
               /\ ~hdrRet.ok
               /\ hdrRet.err = "exr missing required fields"
               /\ hdrRet.missing = MissingRequired

\* A stream with an unknown attribute and every required one but
\* compression: the error names compression alone.
C8_Witness ==
    /\ hdrPc = "done"
    /\ hdrTerminated
    /\ "comments" \in attrsSeen
    /\ ~hdrRet.ok
    /\ hdrRet.missing = << "compression" >>

(***************************************************************************)
(* hdrColors: the three plane types NRGBA128FImage, NRGBA64FImage and      *)
(* NRGBA128UImage.  Their methods differ in the pixel size, the channel    *)
(* type and (SubImage) the copying of Grayscale only, so one definition    *)
(* per method models the three, selected by imgKind.                       *)
(*                                                                         *)
(* A channel value is its bit pattern as the pair <<high 16 bits, low 16   *)
(* bits>>; the 16-bit channels of NRGBA64F have 0 as the high half.        *)
(* rootPix is the buffer the constructor allocated; a plane's Pix is the   *)
(* slice rootPix[base : base+len].                                         *)
(***************************************************************************)

GraySettingNone    == 0
GraySettingRed     == 1
GraySettingGreen   == 2
GraySettingBlue    == 3
GraySettingAlpha   == 4
GraySettingNoAlpha == 5

GraySettings == GraySettingNone..GraySettingNoAlpha

ImageKinds == {"NRGBA128F", "NRGBA64F", "NRGBA128U"}

MaxDim == 2
MaxCoord == MaxDim + 1
Coords == 0..MaxCoord

PixelBytes ==
    CASE imgKind = "NRGBA128F" -> nrgba128FPixelBytes
      [] imgKind = "NRGBA64F"  -> nrgba64FPixelBytes
      [] imgKind = "NRGBA128U" -> nrgba128UPixelBytes

\* The byte offsets of G, B and A in a pixel are 1, 2 and 3 channel sizes.
ChannelBytes == PixelBytes \div 4

ZeroChannel == <<0, 0>>

\* float32(1.0), float16.Fromfloat32(1.0) and 0xffffffff.
OpaqueAlpha ==
    CASE imgKind = "NRGBA128F" -> <<16256, 0>>
      [] imgKind = "NRGBA64F"  -> <<0, 15360>>
      [] imgKind = "NRGBA128U" -> <<65535, 65535>>

ZeroColor == [R |-> ZeroChannel, G |-> ZeroChannel, B |-> ZeroChannel, A |-> ZeroChannel]

\* Colours of the plane's own pixel type handed to Set: an opaque one and a
\* translucent one, the four channels pairwise different.
ColorSamples ==
    CASE imgKind = "NRGBA128F" ->
            { [R |-> <<16128, 0>>, G |-> <<16384, 0>>, B |-> <<15820, 52429>>, A |-> <<16256, 0>>],
              [R |-> <<16256, 0>>, G |-> <<15820, 52429>>, B |-> <<49152, 0>>, A |-> <<16128, 0>>] }
      [] imgKind = "NRGBA64F" ->
            { [R |-> <<0, 14336>>, G |-> <<0, 16384>>, B |-> <<0, 11878>>, A |-> <<0, 15360>>],
              [R |-> <<0, 15360>>, G |-> <<0, 11878>>, B |-> <<0, 49152>>, A |-> <<0, 14336>>] }
      [] imgKind = "NRGBA128U" ->
            { [R |-> <<0, 1>>, G |-> <<1, 0>>, B |-> <<4660, 22136>>, A |-> <<65535, 65535>>],
              [R |-> <<65535, 65535>>, G |-> <<0, 258>>, B |-> <<1, 0>>, A |-> <<32768, 0>>] }

\* A colour handed to Set: its Go type and its four channels.
Color(type, val) == [type |-> type, val |-> val]

\* Colours of another type handed to Set: an NRGBA64F (0.5, 2.0, 0.1, 1.0)
\* for the float32 plane, an NRGBA128F (0.5, 2.0, -2.0, 1.0) for the float16
\* plane and the color.NRGBA64 {0, 0, 0, 0x8000} for the uint32 plane.
ForeignColorSamples ==
    CASE imgKind = "NRGBA128F" ->
            { Color("NRGBA64F",
                    [R |-> <<0, 14336>>, G |-> <<0, 16384>>, B |-> <<0, 11878>>, A |-> <<0, 15360>>]) }
      [] imgKind = "NRGBA64F" ->
            { Color("NRGBA128F",
                    [R |-> <<16128, 0>>, G |-> <<16384, 0>>, B |-> <<49152, 0>>, A |-> <<16256, 0>>]) }
      [] imgKind = "NRGBA128U" ->
            { Color("color.NRGBA64",
                    [R |-> <<0, 0>>, G |-> <<0, 0>>, B |-> <<0, 0>>, A |-> <<0, 32768>>]) }

SetColors == { Color(imgKind, c) : c \in ColorSamples } \cup ForeignColorSamples

\* Float16.Float32() of a normal number or a zero: the sign, the exponent
\* rebiased from 15 to 127, the 10 fraction bits at the top of the 23.
HalfToFloat(v) ==
    LET h    == v[2]
        sign == h \div 32768
        e    == (h \div 1024) % 32
        m    == h % 1024
    IN  IF e = 0 /\ m = 0 THEN << sign * 32768, 0 >>
        ELSE << sign * 32768 + (e + 112) * 128 + m \div 8, (m % 8) * 8192 >>

\* float16.Fromfloat32 of a zero or of a number a normal float16 holds
\* exactly: the inverse of the above, nothing to round.
FloatToHalf(v) ==
    LET sign == v[1] \div 32768
        e    == (v[1] \div 128) % 256
        m    == (v[1] % 128) * 65536 + v[2]
    IN  IF e = 0 /\ m = 0 THEN << 0, sign * 32768 >>
        ELSE << 0, sign * 32768 + (e - 112) * 1024 + m \div 8192 >>

\* uint32((float32(a) / 65535.0) * 4294967295.0) for 0x8000 <= a < 0xffff.
\* The quotient lies in [0.5, 1) and is rounded to 24 bits, m / 2^24 with
\* m = round(a * 2^24 / 65535) = a * 256 + round(a * 256 / 65535); the
\* constant is 2^32 as a float32, so the product is m * 256.
AlphaToUint32(a) ==
    LET m == a * 256 + (2 * a * 256 + 65535) \div (2 * 65535)
    IN  << m \div 256, (m % 256) * 256 >>

\* c.RGBA() of a color.NRGBA64: the alpha, and the colour channels times
\* alpha over 0xffff.
NRGBA64RGBA(c) ==
    [R |-> (c.R[2] * c.A[2]) \div 65535, G |-> (c.G[2] * c.A[2]) \div 65535,
     B |-> (c.B[2] * c.A[2]) \div 65535, A |-> c.A[2]]

\* nrgba128FModel, nrgba64FModel and nrgba128UModel on the colours handed to
\* Set.  Set calls them only for a colour that is not of the plane's type.
Convert(c) ==
    IF c.type = imgKind THEN c.val
    ELSE IF imgKind = "NRGBA128F" /\ c.type = "NRGBA64F" THEN
        [R |-> HalfToFloat(c.val.R), G |-> HalfToFloat(c.val.G),
         B |-> HalfToFloat(c.val.B), A |-> HalfToFloat(c.val.A)]
    ELSE IF imgKind = "NRGBA64F" /\ c.type = "NRGBA128F" THEN
        [R |-> FloatToHalf(c.val.R), G |-> FloatToHalf(c.val.G),
         B |-> FloatToHalf(c.val.B), A |-> FloatToHalf(c.val.A)]
    ELSE \* black of alpha a > 0: the colour channels are 0 / a32f = 0
        LET rgba == NRGBA64RGBA(c.val)
        IN  [R |-> <<0, 0>>, G |-> <<0, 0>>, B |-> <<0, 0>>, A |-> AlphaToUint32(rgba.A)]

\* A binary.Encode that writes the most significant byte first.
EncodeChannelBigEndian(v) ==
    IF ChannelBytes = 4
    THEN << v[1] \div 256, v[1] % 256, v[2] \div 256, v[2] % 256 >>
    ELSE << v[2] \div 256, v[2] % 256 >>

\* binary.Encode / binary.Decode of one channel, little-endian.
EncodeChannel(v) ==
    IF ChannelBytes = 4
    THEN << v[2] % 256, v[2] \div 256, v[1] % 256, v[1] \div 256 >>
    ELSE << v[2] % 256, v[2] \div 256 >>

DecodeChannel(s) ==
    IF ChannelBytes = 4
    THEN << s[4] * 256 + s[3], s[2] * 256 + s[1] >>
    ELSE << 0, s[2] * 256 + s[1] >>

\* image.Rectangle and image.Point
ZR == [Min |-> [X |-> 0, Y |-> 0], Max |-> [X |-> 0, Y |-> 0]]

Rect(x0, y0, x1, y1) == [Min |-> [X |-> x0, Y |-> y0], Max |-> [X |-> x1, Y |-> y1]]

Dx(r) == r.Max.X - r.Min.X

Dy(r) == r.Max.Y - r.Min.Y

Empty(r) == r.Min.X >= r.Max.X \/ r.Min.Y >= r.Max.Y

In(x, y, r) == r.Min.X <= x /\ x < r.Max.X /\ r.Min.Y <= y /\ y < r.Max.Y

\* In without the test against Max.
InMinOnly(x, y, r) == r.Min.X <= x /\ r.Min.Y <= y

Max2(a, b) == IF a > b THEN a ELSE b

Min2(a, b) == IF a < b THEN a ELSE b

Intersect(r, s) ==
    LET t == Rect(Max2(r.Min.X, s.Min.X), Max2(r.Min.Y, s.Min.Y),
                  Min2(r.Max.X, s.Max.X), Min2(r.Max.Y, s.Max.Y))
    IN  IF Empty(t) THEN ZR ELSE t

\* A nil or empty Pix.
NoPix == [base |-> 0, len |-> 0]

\* &NRGBA128FImage{} and its likes.
ZeroPlane == [Pix |-> NoPix, Stride |-> 0, Rect |-> ZR, Grayscale |-> GraySettingNone]

\* An offset counted from (0, 0) instead of the plane's Min.
PixOffsetFromOrigin(p, x, y) == y * p.Stride + x * PixelBytes

PixOffset(p, x, y) ==
    (y - p.Rect.Min.Y) * p.Stride + (x - p.Rect.Min.X) * PixelBytes

\* Whether the slice expression p.Pix[i : i+n] is within the slice.
SliceInRange(p, i, n) == 0 <= i /\ i + n <= p.Pix.len

\* The bytes p.Pix[i : i+n], as a 1-based tuple.
PixBytes(p, i, n) == [k \in 1..n |-> rootPix[p.Pix.base + i + k - 1]]

\* The switch on p.Grayscale in the At methods.
ApplyGrayscale(gray, c) ==
    CASE gray = GraySettingRed     -> [R |-> c.R, G |-> c.R, B |-> c.R, A |-> OpaqueAlpha]
      [] gray = GraySettingGreen   -> [R |-> c.G, G |-> c.G, B |-> c.G, A |-> OpaqueAlpha]
      [] gray = GraySettingBlue    -> [R |-> c.B, G |-> c.B, B |-> c.B, A |-> OpaqueAlpha]
      [] gray = GraySettingAlpha   -> [R |-> c.A, G |-> c.A, B |-> c.A, A |-> OpaqueAlpha]
      [] gray = GraySettingNoAlpha -> [R |-> c.R, G |-> c.G, B |-> c.B, A |-> OpaqueAlpha]
      [] OTHER -> c

\* The four channels stored at Pix[i:].
StoredColor(p, i) ==
    LET n == ChannelBytes
    IN  [R |-> DecodeChannel(PixBytes(p, i, n)),
         G |-> DecodeChannel(PixBytes(p, i + n, n)),
         B |-> DecodeChannel(PixBytes(p, i + 2 * n, n)),
         A |-> DecodeChannel(PixBytes(p, i + 3 * n, n))]

AtResult(val, indexed, panic) == [val |-> val, indexed |-> indexed, panic |-> panic]

\* NRGBA128FAt, NRGBA64FAt, NRGBA128UAt: the colour returned, the indices of
\* the buffer read, and whether the slice expression panics.
NRGBAAtWith(inRect, p, x, y) ==
    IF ~inRect
    THEN AtResult(ZeroColor, {}, FALSE)
    ELSE LET i == PixOffset(p, x, y)
         IN  IF ~SliceInRange(p, i, PixelBytes)
             THEN AtResult(ZeroColor, {}, TRUE)
             ELSE AtResult(ApplyGrayscale(p.Grayscale, StoredColor(p, i)),
                           (p.Pix.base + i)..(p.Pix.base + i + PixelBytes - 1),
                           FALSE)

\* An At whose bounds test misses the upper bounds.
NRGBAAtMinOnly(p, x, y) == NRGBAAtWith(InMinOnly(x, y, p.Rect), p, x, y)

NRGBAAt(p, x, y) == NRGBAAtWith(In(x, y, p.Rect), p, x, y)

\* What the last call on a plane was and how it ended.
PlaneRet(op, k, x, y, at, flag) ==
    [op |-> op, k |-> k, x |-> x, y |-> y,
     val |-> at.val, indexed |-> at.indexed, panic |-> at.panic, flag |-> flag]

\* The last call of Set: its arguments, the colour c it had to store for the
\* colour arg it was handed, and whether it stored it.
LastSet(k, x, y, c, wrote) ==
    [k |-> k, x |-> x, y |-> y, c |-> c, arg |-> Color("none", c), wrote |-> wrote]

NoAt == AtResult(ZeroColor, {}, FALSE)

Panicked == AtResult(ZeroColor, {}, TRUE)

\* NewNRGBA128FImage, NewNRGBA64FImage, NewNRGBA128UImage.  The sizes are
\* far below the int range, where pixelBufferLength returns the product.
NewImage(r) ==
    [Pix |-> [base |-> 0, len |-> PixelBytes * Dx(r) * Dy(r)],
     Stride |-> PixelBytes * Dx(r),
     Rect |-> r,
     Grayscale |-> GraySettingNone]

PlaneInit ==
    /\ imgKind \in ImageKinds
    /\ \E dx \in 0..MaxDim, dy \in 0..MaxDim :
        /\ planes = << NewImage(Rect(1, 1, 1 + dx, 1 + dy)) >>
        /\ rootPix = [i \in 0..(planes[1].Pix.len - 1) |-> 0]
    /\ planeRet = PlaneRet("New", 1, 0, 0, NoAt, FALSE)
    /\ planeCalls = [SubImage |-> 0, Set |-> 0, SetGray |-> 0]
    /\ lastSet = LastSet(0, 0, 0, ZeroColor, FALSE)

\* The rectangles handed to SubImage.
\* left of, inside and right of the constructed plane, and all of Coords.
IntervalSamples ==
    { <<a, a + 1>> : a \in 0..(MaxCoord - 1) } \cup { <<0, MaxCoord>> }

RectSamples ==
    { Rect(h[1], v[1], h[2], v[2]) : h \in IntervalSamples, v \in IntervalSamples }

\* The calls that change a plane are counted up to these numbers; At and
\* Opaque change nothing, so a run queries once, at its end.
MaxSubImages == 2
MaxSets == 1
MaxSetGrays == 1

\* Where Set is called: at each place of the largest constructed plane, which
\* is outside the smaller planes and views, and at one place outside all.
SetPoints == { <<0, 0>> } \cup ((1..MaxDim) \X (1..MaxDim))

\* The settings handed to SetGray: none, one channel, and colour without alpha.
GraySamples == {GraySettingNone, GraySettingGreen, GraySettingNoAlpha}

Querying == planeRet.op \in {"idle", "At", "Opaque"}

Called(op) == [planeCalls EXCEPT ![op] = @ + 1]

\* Whether a point lies in both rectangles.
Overlaps(r, s) ==
    \E x \in Coords, y \in Coords : In(x, y, r) /\ In(x, y, s)

\* A view that starts where the parent's Pix starts.
SubPixFromStart(p, i) == p.Pix

\* p.Pix[i:]
SubPix(p, i) == [base |-> p.Pix.base + i, len |-> p.Pix.len - i]

\* v := planes[k].SubImage(r); v takes the place of the previous view.
SubImage(k, r) ==
    /\ ~Querying
    /\ planeCalls.SubImage < MaxSubImages
    /\ planeCalls' = Called("SubImage")
    /\ k \in DOMAIN planes
    /\ LET p  == planes[k]
           r2 == Intersect(r, p.Rect)
           i  == PixOffset(p, r2.Min.X, r2.Min.Y)
       IN  IF Empty(r2) THEN
               /\ planes' = << planes[1], ZeroPlane >>
               /\ planeRet' = PlaneRet("SubImage", k, 0, 0, NoAt, Overlaps(r, p.Rect))
           ELSE IF i < 0 \/ i > p.Pix.len THEN
               /\ planeRet' = PlaneRet("SubImage", k, 0, 0, Panicked, Overlaps(r, p.Rect))
               /\ UNCHANGED planes
           ELSE
               /\ planes' =
                    << planes[1],
                       [Pix |-> SubPix(p, i),
                        Stride |-> p.Stride,
                        Rect |-> r2,
                        Grayscale |-> IF imgKind = "NRGBA64F" THEN GraySettingNone
                                      ELSE p.Grayscale] >>
               /\ planeRet' = PlaneRet("SubImage", k, 0, 0, NoAt, Overlaps(r, p.Rect))
    /\ UNCHANGED <<imgKind, rootPix, lastSet>>

\* planes[k].Set(x, y, c)
Set(k, x, y, c) ==
    /\ ~Querying
    /\ planeCalls.Set < MaxSets
    /\ planeCalls' = Called("Set")
    /\ k \in DOMAIN planes
    /\ LET p == planes[k]
           i == PixOffset(p, x, y)
           c1 == Convert(c)
           s == EncodeChannel(c1.R) \o EncodeChannel(c1.G) \o EncodeChannel(c1.B) \o EncodeChannel(c1.A)
           new == [j \in DOMAIN rootPix |->
                      IF p.Pix.base + i <= j /\ j < p.Pix.base + i + PixelBytes
                      THEN s[j - (p.Pix.base + i) + 1]
                      ELSE rootPix[j]]
       IN  IF ~In(x, y, p.Rect) THEN
               /\ planeRet' = PlaneRet("Set", k, x, y, NoAt, FALSE)
               /\ lastSet' = [LastSet(k, x, y, c1, FALSE) EXCEPT !.arg = c]
               /\ UNCHANGED rootPix
           ELSE IF ~SliceInRange(p, i, PixelBytes) THEN
               /\ planeRet' = PlaneRet("Set", k, x, y, Panicked, FALSE)
               /\ lastSet' = [LastSet(k, x, y, c1, FALSE) EXCEPT !.arg = c]
               /\ UNCHANGED rootPix
           ELSE
               /\ rootPix' = new
               /\ planeRet' = PlaneRet("Set", k, x, y, NoAt, new # rootPix)
               /\ lastSet' = [LastSet(k, x, y, c1, TRUE) EXCEPT !.arg = c]
    /\ UNCHANGED <<imgKind, planes>>

\* planes[k].SetGray(gray)
SetGray(k, gray) ==
    /\ ~Querying
    /\ planeCalls.SetGray < MaxSetGrays
    /\ planeCalls' = Called("SetGray")
    /\ k \in DOMAIN planes
    /\ planes' = [planes EXCEPT ![k].Grayscale = gray]
    /\ planeRet' = PlaneRet("SetGray", k, 0, 0, NoAt, FALSE)
    /\ UNCHANGED <<imgKind, rootPix, lastSet>>

\* planes[k].At(x, y)
At(k, x, y) ==
    /\ ~Querying
    /\ k \in DOMAIN planes
    /\ planeRet' = PlaneRet("At", k, x, y, NRGBAAt(planes[k], x, y), FALSE)
    /\ UNCHANGED <<imgKind, rootPix, planes, planeCalls, lastSet>>

\* binary.Decode(buf, order, alpha) with alpha a float32 passed by value:
\* nothing can be stored through it, the caller's variable keeps its value.
DecodeByValue(buf, alpha) == alpha

\* Whether a float32 given as a number of halves is < 1.0.
LessThanOne(halves) == halves < 2

\* The scan of Opaque from row onwards: the result, or a panic of Pix[i:].
RECURSIVE OpaqueRows(_, _, _, _)
OpaqueRows(p, row, i0, i1) ==
    IF row >= Dy(p.Rect) THEN [opaque |-> TRUE, panic |-> FALSE]
    ELSE IF i0 >= i1 THEN OpaqueRows(p, row + 1, i0 + p.Stride, i1 + p.Stride)
    ELSE \* The first turn of the inner loop, at i = i0.
         IF i0 > p.Pix.len THEN [opaque |-> FALSE, panic |-> TRUE]
         ELSE LET alpha == DecodeByValue(PixBytes(p, i0, 0), 0)
              IN  IF LessThanOne(alpha) THEN [opaque |-> FALSE, panic |-> FALSE]
                  ELSE OpaqueRows(p, row, i0 + PixelBytes, i1)

\* Opaque of the three plane types: i0 is 12 in each.
Opaque(p) ==
    IF Empty(p.Rect) THEN [opaque |-> TRUE, panic |-> FALSE]
    ELSE OpaqueRows(p, 0, 12, Dx(p.Rect) * PixelBytes)

\* planes[k].Opaque()
CallOpaque(k) ==
    /\ ~Querying
    /\ k \in DOMAIN planes
    /\ LET res == Opaque(planes[k])
       IN  planeRet' = PlaneRet("Opaque", k, 0, 0,
                                AtResult(ZeroColor, {}, res.panic), res.opaque)
    /\ UNCHANGED <<imgKind, rootPix, planes, planeCalls, lastSet>>

PlaneNext ==
    \/ (\E k \in 1..2, r \in RectSamples : SubImage(k, r)) /\ OthersUnchanged("plane")
    \/ (\E k \in 1..2, pt \in SetPoints, c \in SetColors : Set(k, pt[1], pt[2], c))
            /\ OthersUnchanged("plane")
    \/ (\E k \in 1..2, gray \in GraySamples : SetGray(k, gray)) /\ OthersUnchanged("plane")
    \/ (\E k \in 1..2, x \in Coords, y \in Coords : At(k, x, y)) /\ OthersUnchanged("plane")
    \/ (\E k \in 1..2 : CallOpaque(k)) /\ OthersUnchanged("plane")

InitPlane == PlaneInit /\ OthersIdle("plane")

SpecPlane == InitPlane /\ [][PlaneNext]_vars

\* The plane a query or call was made on.
Callee == planes[planeRet.k]

\* C4: At(x, y) with (x, y) outside the plane's Rect returns the all-zero
\* pixel, indexes no element of Pix, does not panic and leaves the buffer and
\* the planes as they are; for the three plane types and for constructed
\* planes and views alike, the empty ones included.
C4_AtOutsideBounds ==
    [][ (planeRet'.op = "At" /\ ~In(planeRet'.x, planeRet'.y, planes[planeRet'.k].Rect)) =>
            /\ planeRet'.val = ZeroColor
            /\ planeRet'.indexed = {}
            /\ ~planeRet'.panic
            /\ rootPix' = rootPix
            /\ planes' = planes ]_vars

\* At beyond Max of a plane that holds a stored colour and has a Grayscale
\* setting that would make alpha opaque.
C4_Witness ==
    /\ planeRet.op = "At"
    /\ planeRet.k = 1
    /\ planeRet.x >= Callee.Rect.Max.X
    /\ ~Empty(Callee.Rect)
    /\ Callee.Grayscale = GraySettingNoAlpha
    /\ lastSet.wrote
    /\ planeRet.val = ZeroColor

\* At of the empty plane SubImage returns for a disjoint rectangle.
C4_WitnessEmptyView ==
    /\ planeRet.op = "At"
    /\ planeRet.k = 2
    /\ Callee = ZeroPlane
    /\ planeRet.val = ZeroColor

\* Set stored c at (x, y) through one plane and the query is an At of the
\* same place through the other, inside its Rect.
ReadsBackLastSet ==
    /\ planeRet.op = "At"
    /\ lastSet.wrote
    /\ planeRet.k # lastSet.k
    /\ planeRet.x = lastSet.x
    /\ planeRet.y = lastSet.y
    /\ In(planeRet.x, planeRet.y, Callee.Rect)

\* What SubImage returns for a rectangle that has no point in common with
\* the plane: empty bounds, no Pix; and a Set through an empty plane changes
\* no byte.
DisjointViewIsDetached ==
    /\ (planeRet.op = "SubImage" /\ ~planeRet.flag) =>
            /\ Len(planes) = 2
            /\ Empty(planes[2].Rect)
            /\ planes[2].Pix.len = 0
    /\ (planeRet.op = "Set" /\ Empty(Callee.Rect)) => ~planeRet.flag

\* C5 as claimed: a colour c stored by Set through a view or through its
\* parent at a place of both is what At returns there through either plane;
\* SubImage of a disjoint rectangle returns an empty plane without Pix,
\* through which Set changes nothing.
C5_ReadBackIsColor ==
    /\ ReadsBackLastSet => planeRet.val = lastSet.c
    /\ DisjointViewIsDetached

\* C5 as amended: At returns the stored colour c as seen under the Grayscale
\* setting of the plane read through, which is c when the setting is none.
C5_ReadBackIsGrayscaleOfColor ==
    /\ ReadsBackLastSet => planeRet.val = ApplyGrayscale(Callee.Grayscale, lastSet.c)
    /\ DisjointViewIsDetached

\* A Set through the view read back through the parent, whose Grayscale
\* setting shows the green channel.
C5_Witness ==
    /\ ReadsBackLastSet
    /\ lastSet.k = 2
    /\ planeRet.k = 1
    /\ Callee.Grayscale = GraySettingGreen
    /\ planeRet.val = ApplyGrayscale(GraySettingGreen, lastSet.c)
    /\ planeRet.val # lastSet.c

\* Whether a stored alpha is >= 1.0, or the maximum of the uint32 model.
AlphaIsOpaque(a) ==
    CASE imgKind = "NRGBA128F" -> (16256 <= a[1] /\ a[1] < 32640) \/ a = <<32640, 0>>
      [] imgKind = "NRGBA64F"  -> 15360 <= a[2] /\ a[2] <= 31744
      [] imgKind = "NRGBA128U" -> a = <<65535, 65535>>

EveryAlphaOpaque(p) ==
    \A x \in Coords, y \in Coords :
        In(x, y, p.Rect) => AlphaIsOpaque(StoredColor(p, PixOffset(p, x, y)).A)

\* C9: Opaque() returns true iff every pixel inside the plane's Rect has a
\* stored alpha >= 1.0 (the maximum, for the uint32 model); true for an
\* empty Rect.
C9_OpaqueIffEveryAlphaOpaque ==
    planeRet.op = "Opaque" =>
        /\ ~planeRet.panic
        /\ planeRet.flag = EveryAlphaOpaque(Callee)

(***************************************************************************)
(* dds: DecodeInfo, Decode, WriteHDR and DDS.dump.                         *)
(*                                                                         *)
(* A flag word is the set of the names of its set bits; formats and colour *)
(* models are their names.  A stream is the record of what follows the     *)
(* position of the reader: the magic, the Header, the DXT10Header (present *)
(* or not) and the bytes after the headers.                                *)
(***************************************************************************)

PixelFormatFlags == {"AlphaPixels", "FourCC", "RGB", "YUV", "Luminance"}

FourCCSamples == {"ATI1", "ATI2", "DXT1", "DXT3", "DXT5", "DX10", "XXXX"}

KnownFourCCs == {"ATI1", "ATI2", "DXT1", "DXT3", "DXT5", "DX10"}

DXGIFormatSamples ==
    { "R32G32B32A32Float", "R32G32B32Float", "R16G16B16A16Float", "R16G16B16A16UNorm",
      "R32G32Float", "R32Float", "R16UNorm", "R8UNorm", "R8G8B8A8UNorm",
      "BC1UNorm", "BC2UNorm", "BC3UNorm", "BC4UNorm", "BC5UNorm", "BC7UNorm",
      "BC7UNormSRGB", "R32G32B32A32UInt", "Unknown" }

\* The DXGI formats the switch of DecodeInfo has a case for.
KnownDXGIFormats == DXGIFormatSamples \ {"R32G32B32A32UInt", "Unknown"}

CubemapFaces ==
    << "CubemapPlusX", "CubemapMinusX", "CubemapPlusY", "CubemapMinusY",
       "CubemapPlusZ", "CubemapMinusZ" >>

ZeroPixelFormat ==
    [Size |-> 0, Flags |-> {}, FourCC |-> "", RGBBitCount |-> 0,
     RBitMask |-> 0, GBitMask |-> 0, BBitMask |-> 0, ABitMask |-> 0]

\* Header{}
ZeroHeader ==
    [Size |-> 0, Flags |-> {}, Height |-> 0, Width |-> 0, PitchOrLinearSize |-> 0,
     Depth |-> 0, MipMapCount |-> 0, PixelFormat |-> ZeroPixelFormat,
     Caps |-> {}, Caps2 |-> {}, Caps3 |-> 0, Caps4 |-> 0]

\* DXT10Header{}
ZeroDXT10Header ==
    [DXGIFormat |-> "", ResourceDimension |-> "", MiscFlag |-> {},
     ArraySize |-> 0, MiscFlags2 |-> 0]

\* Info{}; DXT10Header is a pointer, nil when HasDXT10 is false.
ZeroInfo ==
    [Header |-> ZeroHeader, HasDXT10 |-> FALSE, DXT10Header |-> ZeroDXT10Header,
     Decompress |-> "nil", ColorModel |-> "nil", NumMipMaps |-> 0, NumImages |-> 0]

InfoResult(info, err) == [info |-> info, err |-> err]

InfoError(err) == InfoResult(ZeroInfo, err)

\* The colour model and decompressor DecodeInfo chooses for a DXGI format,
\* or the error it returns.
ClassifyDXGI(fmt) ==
    CASE fmt \in {"R32G32B32A32Float", "R32G32B32Float"} ->
            [model |-> "NRGBA128FModel", decompress |-> "DecompressUncompressedDXT10", err |-> ""]
      [] fmt \in {"R16G16B16A16Float", "R16G16B16A16UNorm"} ->
            [model |-> "NRGBA64FModel", decompress |-> "DecompressUncompressedDXT10", err |-> ""]
      [] fmt = "R32G32Float" ->
            [model |-> "NRGBA64Model", decompress |-> "DecompressUncompressedDXT10", err |-> ""]
      [] fmt \in {"R32Float", "R16UNorm"} ->
            [model |-> "Gray16Model", decompress |-> "DecompressUncompressedDXT10", err |-> ""]
      [] fmt = "R8UNorm" ->
            [model |-> "GrayModel", decompress |-> "DecompressUncompressedDXT10", err |-> ""]
      [] fmt = "R8G8B8A8UNorm" ->
            [model |-> "NRGBAModel", decompress |-> "DecompressUncompressedDXT10", err |-> ""]
      [] fmt = "BC1UNorm" ->
            [model |-> "NRGBAModel", decompress |-> "DecompressDXT1", err |-> ""]
      [] fmt = "BC2UNorm" ->
            [model |-> "nil", decompress |-> "nil", err |-> "DXT3 compression unsupported"]
      [] fmt = "BC3UNorm" ->
            [model |-> "NRGBAModel", decompress |-> "DecompressDXT5", err |-> ""]
      [] fmt = "BC4UNorm" ->
            [model |-> "GrayModel", decompress |-> "Decompress3DcPlus", err |-> ""]
      [] fmt = "BC5UNorm" ->
            [model |-> "NRGBAModel", decompress |-> "Decompress3Dc", err |-> ""]
      [] fmt = "BC7UNorm" ->
            [model |-> "NRGBAModel", decompress |-> "DecompressBC7", err |-> ""]
      [] fmt = "BC7UNormSRGB" ->
            [model |-> "nil", decompress |-> "nil", err |-> "BC7 SRGB compression unsupported"]
      [] OTHER ->
            [model |-> "nil", decompress |-> "nil", err |-> "unsupported DXGI format"]

\* A classification in which DXT3 is handed to the DXT5 decompressor.
ClassifyFourCCAcceptingDXT3(fourCC) ==
    CASE fourCC = "ATI1" -> [model |-> "GrayModel", decompress |-> "Decompress3DcPlus", err |-> ""]
      [] fourCC = "ATI2" -> [model |-> "NRGBAModel", decompress |-> "Decompress3Dc", err |-> ""]
      [] fourCC = "DXT1" -> [model |-> "NRGBAModel", decompress |-> "DecompressDXT1", err |-> ""]
      [] fourCC \in {"DXT3", "DXT5"} ->
            [model |-> "NRGBAModel", decompress |-> "DecompressDXT5", err |-> ""]
      [] OTHER -> [model |-> "nil", decompress |-> "nil",
                   err |-> "unsupported cmpression format: unknown fourCC"]

\* The same for a legacy FourCC other than DX10.
ClassifyFourCC(fourCC) ==
    CASE fourCC = "ATI1" -> [model |-> "GrayModel", decompress |-> "Decompress3DcPlus", err |-> ""]
      [] fourCC = "ATI2" -> [model |-> "NRGBAModel", decompress |-> "Decompress3Dc", err |-> ""]
      [] fourCC = "DXT1" -> [model |-> "NRGBAModel", decompress |-> "DecompressDXT1", err |-> ""]
      [] fourCC = "DXT3" -> [model |-> "nil", decompress |-> "nil", err |-> "DXT3 compression unsupported"]
      [] fourCC = "DXT5" -> [model |-> "NRGBAModel", decompress |-> "DecompressDXT5", err |-> ""]
      [] OTHER -> [model |-> "nil", decompress |-> "nil",
                   err |-> "unsupported cmpression format: unknown fourCC"]

\* The if-chain on hdr.PixelFormat.Flags up to the FourCC branch:
\* "fourcc" when the switch on FourCC is reached, else the choice made.
ClassifyFlags(pf) ==
    IF "RGB" \in pf.Flags THEN
        [branch |-> "flags", model |-> "NRGBAModel", decompress |-> "DecompressUncompressed"]
    ELSE IF "YUV" \in pf.Flags THEN
        [branch |-> "flags",
         model |-> IF "AlphaPixels" \notin pf.Flags THEN "YCbCrModel" ELSE "NYCbCrAModel",
         decompress |-> "DecompressUncompressed"]
    ELSE IF "Luminance" \in pf.Flags THEN
        [branch |-> "flags",
         model |-> IF "AlphaPixels" \notin pf.Flags
                   THEN IF pf.GBitMask = 0 /\ pf.BBitMask = 0
                        THEN IF pf.RGBBitCount > 8 THEN "Gray16Model" ELSE "GrayModel"
                        ELSE "NRGBAModel"
                   ELSE "NRGBAModel",
         decompress |-> "DecompressUncompressed"]
    ELSE IF "FourCC" \in pf.Flags THEN
        [branch |-> "fourcc", model |-> "nil", decompress |-> "nil"]
    ELSE
        [branch |-> "none", model |-> "nil", decompress |-> "nil"]

\* Whether DecodeInfo calls DecodeDXT10Header for this header.
ReadsDXT10Header(hdr) ==
    ClassifyFlags(hdr.PixelFormat).branch = "fourcc" /\ hdr.PixelFormat.FourCC = "DX10"

\* The number of set face bits of Caps2.
CubemapFaceCount(caps2) ==
    Cardinality({i \in DOMAIN CubemapFaces : CubemapFaces[i] \in caps2})

\* DecodeInfo from line 205 on: the image and mipmap counts.
CountImages(hdr, info, cubemap, volume) ==
    LET n0 == IF info.HasDXT10 THEN info.DXT10Header.ArraySize ELSE 1
        n1 == IF cubemap THEN CubemapFaceCount(hdr.Caps2) ELSE n0
        numImages == IF volume THEN hdr.Depth ELSE n1
        numMipMaps == IF "MipMap" \in hdr.Caps /\ ("Texture" \in hdr.Caps \/ "Cubemap" \in hdr.Caps2)
                      THEN hdr.MipMapCount
                      ELSE 1
    IN  IF numImages = 0 THEN InfoError("invalid image header: no images")
        ELSE IF numMipMaps = 0
        THEN InfoError("invalid image header: base image mipmap (mip 0) missing")
        ELSE InfoResult([info EXCEPT !.NumImages = numImages, !.NumMipMaps = numMipMaps], "")

\* DecodeInfo of a stream.
DecodeInfo(s) ==
    IF s.magic # "DDS " \/ ~s.headerOk THEN InfoError("read header")
    ELSE
    LET hdr     == s.Header
        info    == [ZeroInfo EXCEPT !.Header = hdr, !.NumMipMaps = 1]
        cubemap == "Cubemap" \in hdr.Caps2
        volume  == "Volume" \in hdr.Caps2 /\ hdr.Depth > 0
        byFlags == ClassifyFlags(hdr.PixelFormat)
    IN  IF byFlags.branch = "flags" THEN
            CountImages(hdr, [info EXCEPT !.ColorModel = byFlags.model,
                                          !.Decompress = byFlags.decompress],
                        cubemap, volume)
        ELSE IF byFlags.branch = "none" THEN
            CountImages(hdr, info, cubemap, volume)
        ELSE IF hdr.PixelFormat.FourCC # "DX10" THEN
            LET c == ClassifyFourCC(hdr.PixelFormat.FourCC)
            IN  IF c.err # "" THEN InfoError(c.err)
                ELSE CountImages(hdr, [info EXCEPT !.ColorModel = c.model,
                                                   !.Decompress = c.decompress],
                                 cubemap, volume)
        ELSE IF ~s.hasDXT10 THEN InfoError("read DXT10 header")
        ELSE
            LET dx10 == s.DXT10Header
                c    == ClassifyDXGI(dx10.DXGIFormat)
            IN  IF dx10.ResourceDimension # "Texture2D"
                THEN InfoError("unsupported DXT10 resource dimension")
                ELSE IF c.err # "" THEN InfoError(c.err)
                ELSE CountImages(hdr,
                                 [info EXCEPT !.HasDXT10 = TRUE, !.DXT10Header = dx10,
                                              !.ColorModel = c.model,
                                              !.Decompress = c.decompress],
                                 cubemap \/ "TextureCube" \in dx10.MiscFlag, volume)

\* The stream Decode and DecodeInfo read.
Stream(magic, headerOk, hdr, hasDXT10, dx10, data) ==
    [magic |-> magic, headerOk |-> headerOk, Header |-> hdr,
     hasDXT10 |-> hasDXT10, DXT10Header |-> dx10, data |-> data]

ZeroStream == Stream("", FALSE, ZeroHeader, FALSE, ZeroDXT10Header, <<>>)

\* An image: a plane or a standard-library image of the given type, or (with
\* wrapper) a *DDS whose embedded Image it is.
Image(wrapper, type, w, h, pix, info, images) ==
    [wrapper |-> wrapper, type |-> type, W |-> w, H |-> h, Pix |-> pix,
     Info |-> info, Images |-> images]

ZeroImage == Image(FALSE, "nil", 0, 0, <<>>, ZeroInfo, <<>>)

ColorModelOf(type) ==
    CASE type = "NRGBA128FImage" -> "NRGBA128FModel"
      [] type = "NRGBA64FImage"  -> "NRGBA64FModel"
      [] type = "NRGBA128UImage" -> "NRGBA128UModel"
      [] type = "image.NRGBA"    -> "NRGBAModel"
      [] type = "image.NRGBA64"  -> "NRGBA64Model"
      [] type = "image.Gray"     -> "GrayModel"
      [] type = "image.Gray16"   -> "Gray16Model"
      [] OTHER -> "nil"

HDRModels == {"NRGBA128FModel", "NRGBA64FModel", "NRGBA128UModel"}

\* The bytes of a pixel in the Pix of each image type.
BytesPerPixel(type) ==
    CASE type = "NRGBA128FImage" -> nrgba128FPixelBytes
      [] type = "NRGBA64FImage"  -> nrgba64FPixelBytes
      [] type = "NRGBA128UImage" -> nrgba128UPixelBytes
      [] type = "image.NRGBA"    -> 4
      [] type = "image.NRGBA64"  -> 8
      [] type = "image.Gray"     -> 1
      [] type = "image.Gray16"   -> 2
      [] OTHER -> 0

\* The image type Decode allocates for a colour model.
DecodedType(model) ==
    CASE model = "GrayModel"      -> "image.Gray"
      [] model = "Gray16Model"    -> "image.Gray16"
      [] model = "NRGBAModel"     -> "image.NRGBA"
      [] model = "NRGBA64Model"   -> "image.NRGBA64"
      [] model = "NRGBA64FModel"  -> "NRGBA64FImage"
      [] model = "NRGBA128FModel" -> "NRGBA128FImage"
      [] OTHER -> "invalid"

\* The bytes of a pixel of an uncompressed DXGI format in the file.
DXGIBytesPerPixel(fmt) ==
    CASE fmt \in {"R32G32B32A32Float", "R32G32B32A32UInt"} -> 16
      [] fmt = "R32G32B32Float" -> 12
      [] fmt \in {"R16G16B16A16Float", "R16G16B16A16UNorm", "R32G32Float"} -> 8
      [] fmt \in {"R32Float", "R8G8B8A8UNorm"} -> 4
      [] fmt = "R16UNorm" -> 2
      [] OTHER -> 1

CeilDiv(a, b) == (a + b - 1) \div b

\* The bytes info.Decompress reads from the stream for a width x height
\* level: raw pixels, or one 8- or 16-byte block per 4x4 tile.
SourceBytes(info, width, height) ==
    CASE info.Decompress = "DecompressUncompressedDXT10" ->
            width * height * DXGIBytesPerPixel(info.DXT10Header.DXGIFormat)
      [] info.Decompress = "DecompressUncompressed" ->
            width * height * CeilDiv(info.Header.PixelFormat.RGBBitCount, 8)
      [] info.Decompress \in {"DecompressDXT1", "Decompress3DcPlus"} ->
            CeilDiv(width, 4) * CeilDiv(height, 4) * 8
      [] OTHER ->
            CeilDiv(width, 4) * CeilDiv(height, 4) * 16

\* info.Decompress(buf, r, width, height, info): the buffer filled, or an
\* error when the stream ends early.  The two float formats whose file
\* layout is the layout of the plane are copied; what the other
\* decompressors compute is left out, their buffer is shown as zeros.
Decompress(info, data, width, height, bufLen) ==
    LET n == SourceBytes(info, width, height)
    IN  IF Len(data) < n THEN [err |-> "unexpected EOF", buf |-> <<>>, rest |-> data]
        ELSE [err |-> "",
              buf |-> IF info.Decompress = "DecompressUncompressedDXT10"
                         /\ info.DXT10Header.DXGIFormat \in {"R32G32B32A32Float", "R16G16B16A16Float"}
                      THEN SubSeq(data, 1, n)
                      ELSE [i \in 1..bufLen |-> 0],
              rest |-> SubSeq(data, n + 1, Len(data))]

\* An inner loop that goes on to mipMapsToRead levels whatever their size.
RECURSIVE DecodeMipMapsNoBreak(_, _, _, _, _, _, _)
DecodeMipMapsNoBreak(info, data, width, height, j, mipMapsToRead, mipMaps) ==
    IF j >= mipMapsToRead
    THEN [err |-> "", mipMaps |-> mipMaps, rest |-> data]
    ELSE LET type == DecodedType(info.ColorModel)
         IN  IF type = "invalid"
             THEN [err |-> "invalid color model passed by info structure",
                   mipMaps |-> mipMaps, rest |-> data]
             ELSE LET d == Decompress(info, data, width, height,
                                      width * height * BytesPerPixel(type))
                  IN  IF d.err # ""
                      THEN [err |-> d.err, mipMaps |-> mipMaps, rest |-> data]
                      ELSE DecodeMipMapsNoBreak(info, d.rest, width \div 2, height \div 2,
                                                j + 1, mipMapsToRead,
                                                Append(mipMaps,
                                                       [Width |-> width, Height |-> height,
                                                        type |-> type, Pix |-> d.buf]))

\* The inner loop of Decode, from level j on.
RECURSIVE DecodeMipMaps(_, _, _, _, _, _, _)
DecodeMipMaps(info, data, width, height, j, mipMapsToRead, mipMaps) ==
    IF j >= mipMapsToRead \/ width = 0 \/ height = 0
    THEN [err |-> "", mipMaps |-> mipMaps, rest |-> data]
    ELSE LET type == DecodedType(info.ColorModel)
         IN  IF type = "invalid"
             THEN [err |-> "invalid color model passed by info structure",
                   mipMaps |-> mipMaps, rest |-> data]
             ELSE LET d == Decompress(info, data, width, height,
                                      width * height * BytesPerPixel(type))
                  IN  IF d.err # ""
                      THEN [err |-> d.err, mipMaps |-> mipMaps, rest |-> data]
                      ELSE DecodeMipMaps(info, d.rest, width \div 2, height \div 2,
                                         j + 1, mipMapsToRead,
                                         Append(mipMaps,
                                                [Width |-> width, Height |-> height,
                                                 type |-> type, Pix |-> d.buf]))

\* The outer loop of Decode, from image i on.
RECURSIVE DecodeImages(_, _, _, _, _)
DecodeImages(info, data, i, mipMapsToRead, images) ==
    IF i >= info.NumImages THEN [err |-> "", images |-> images]
    ELSE LET m == DecodeMipMaps(info, data, info.Header.Width, info.Header.Height,
                                0, mipMapsToRead, <<>>)
         IN  IF m.err # "" THEN [err |-> m.err, images |-> images]
             ELSE IF Len(m.mipMaps) = 0 THEN [err |-> "no mipmaps written", images |-> images]
             ELSE DecodeImages(info, m.rest, i + 1, mipMapsToRead,
                               Append(images, [MipMaps |-> m.mipMaps]))

\* Decode(r, readMipMaps)
Decode(s, readMipMaps) ==
    LET r == DecodeInfo(s)
        info == r.info
        mipMapsToRead == IF readMipMaps \/ info.NumImages > 1 THEN info.NumMipMaps ELSE 1
        d == DecodeImages(info, s.data, 0, mipMapsToRead, <<>>)
        first == d.images[1].MipMaps[1]
    IN  IF r.err # "" THEN [err |-> r.err, dds |-> ZeroImage]
        ELSE IF d.err # "" THEN [err |-> d.err, dds |-> ZeroImage]
        ELSE [err |-> "",
              dds |-> Image(TRUE, first.type, first.Width, first.Height, first.Pix,
                            info, d.images)]

\* A writer that declares the 16-bit format for every model.
WriteHDRFormatAlwaysHalf(model) == "R16G16B16A16Float"

\* The DXGI format WriteHDR declares for an HDR colour model.
WriteHDRFormat(model) ==
    CASE model = "NRGBA128FModel" -> "R32G32B32A32Float"
      [] model = "NRGBA128UModel" -> "R32G32B32A32UInt"
      [] model = "NRGBA64FModel"  -> "R16G16B16A16Float"

\* The Info literal of WriteHDR.
WriteHDRInfo(img, dxgiFmt) ==
    [Header |->
        [Size |-> 124,
         Flags |-> {"Caps", "Height", "Width", "PixelFormat", "MipMapCount"},
         Height |-> img.H,
         Width |-> img.W,
         PitchOrLinearSize |-> 0,
         Depth |-> 0,
         MipMapCount |-> 1,
         PixelFormat |->
            [Size |-> 32, Flags |-> {"FourCC"}, FourCC |-> "DX10", RGBBitCount |-> 0,
             RBitMask |-> 0, GBitMask |-> 0, BBitMask |-> 0, ABitMask |-> 0],
         Caps |-> {"Flag", "MipMap", "Texture"},
         Caps2 |-> {},
         Caps3 |-> 0,
         Caps4 |-> 0],
     DXT10Header |->
        [DXGIFormat |-> dxgiFmt, ResourceDimension |-> "Texture2D", MiscFlag |-> {},
         ArraySize |-> 1, MiscFlags2 |-> 0]]

WriteResult(err, stream, img) == [err |-> err, stream |-> stream, img |-> img]

\* (d *DDS).dump: the stream written and d after the call.
dump(d) ==
    LET hdr == [d.Info.Header EXCEPT !.MipMapCount = 1]
        d2  == [d EXCEPT !.Info.Header = hdr]
        typeOk == ColorModelOf(d.type) = d.Info.ColorModel
    IN  IF d.Info.ColorModel \in HDRModels /\ ~typeOk
        THEN WriteResult("failed to convert dds", ZeroStream, d2)
        ELSE WriteResult("",
                         Stream("DDS ", TRUE, hdr, d.Info.HasDXT10, d.Info.DXT10Header,
                                IF d.Info.ColorModel \in HDRModels THEN d.Pix ELSE <<>>),
                         d2)

\* WriteHDR(w, hdrImg)
WriteHDR(hdrImg) ==
    IF hdrImg.wrapper THEN dump(hdrImg)
    ELSE IF ColorModelOf(hdrImg.type) \notin HDRModels
    THEN WriteResult("image does not have an HDR color model", ZeroStream, hdrImg)
    ELSE LET info == WriteHDRInfo(hdrImg, WriteHDRFormat(ColorModelOf(hdrImg.type)))
         IN  WriteResult("",
                         Stream("DDS ", TRUE, info.Header, TRUE, info.DXT10Header, hdrImg.Pix),
                         hdrImg)

MaxDdsDim == 2
MaxSeed == 2

\* Pixel bytes that differ from place to place.
PatternBytes(seed, n) == [i \in 1..n |-> (seed * 37 + i * i + 11 * i) % 256]

\* Freshly allocated planes with stored pixels, and standard images.
PlainImages ==
    { Image(FALSE, type, w, h, PatternBytes(seed, w * h * BytesPerPixel(type)), ZeroInfo, <<>>) :
        type \in {"NRGBA128FImage", "NRGBA64FImage", "NRGBA128UImage", "image.NRGBA", "image.Gray"},
        w \in 0..MaxDdsDim, h \in 0..MaxDdsDim, seed \in 1..MaxSeed }

\* Caps and MipMapCount of the sample headers.
MipSamples ==
    { <<{"Texture"}, 1>>, <<{"MipMap", "Texture"}, 0>>,
      <<{"MipMap", "Texture"}, 2>>, <<{"MipMap", "Texture"}, 3>>, <<{"MipMap"}, 2>> }

\* Caps2 and Depth of the sample headers.
Caps2Samples ==
    { <<{}, 0>>, <<{"Cubemap"}, 0>>, <<{"Cubemap", "CubemapPlusX", "CubemapMinusZ"}, 0>>,
      <<{"Volume"}, 2>>, <<{"Volume"}, 0>> }

\* Width and Height of the sample headers.
SizeSamples == { <<0, 1>>, <<2, 2>> }

\* RGBBitCount and GBitMask of the sample headers that have Luminance.
LuminanceSamples == { <<8, 0>>, <<16, 0>>, <<16, 1>> }

SampleHeaders ==
    { [ZeroHeader EXCEPT
          !.Size = 124,
          !.Width = size[1], !.Height = size[2],
          !.MipMapCount = mip[2], !.Caps = mip[1],
          !.Caps2 = caps2[1], !.Depth = caps2[2],
          !.PixelFormat = [ZeroPixelFormat EXCEPT
                              !.Size = 32, !.Flags = flags, !.FourCC = fourCC,
                              !.RGBBitCount = lum[1], !.GBitMask = lum[2]]] :
        size \in SizeSamples, mip \in MipSamples, caps2 \in Caps2Samples,
        flags \in SUBSET PixelFormatFlags, fourCC \in FourCCSamples,
        lum \in LuminanceSamples }

\* ResourceDimension, MiscFlag and ArraySize of the sample DXT10 headers.
ResourceSamples ==
    { <<"Texture2D", {}, 1>>, <<"Texture3D", {}, 1>>, <<"Texture2D", {"TextureCube"}, 1>>,
      <<"Texture2D", {}, 0>>, <<"Texture2D", {}, 2>> }

SampleDXT10Headers ==
    { [DXGIFormat |-> fmt, ResourceDimension |-> res[1], MiscFlag |-> res[2],
       ArraySize |-> res[3], MiscFlags2 |-> 0] :
        fmt \in DXGIFormatSamples, res \in ResourceSamples }

SampleDataLen == 80

\* What the last call was and returned; readMipMaps is the argument of Decode.
DdsRet(op, err, info) == [op |-> op, err |-> err, info |-> info, readMipMaps |-> FALSE]

\* Either an image to be written, or a file to be read: its header, the
\* DXT10 header if the header makes DecodeInfo read one, and the data.
DdsInit ==
    /\ ddsRet = DdsRet("none", "", ZeroInfo)
    /\ ddsSrc = ZeroImage
    /\ \/ /\ ddsPc = "img"
          /\ ddsImg \in PlainImages
          /\ ddsStream = ZeroStream
       \/ /\ ddsPc = "stream"
          /\ ddsImg = ZeroImage
          /\ \E hdr \in SampleHeaders, len \in {0, SampleDataLen} :
                \/ /\ ~ReadsDXT10Header(hdr)
                   /\ (("Luminance" \in hdr.PixelFormat.Flags)
                          \/ (hdr.PixelFormat.RGBBitCount = 8 /\ hdr.PixelFormat.GBitMask = 0))
                   /\ ddsStream = Stream("DDS ", TRUE, hdr, FALSE, ZeroDXT10Header,
                                         PatternBytes(1, len))
                \/ /\ ReadsDXT10Header(hdr)
                   /\ hdr.PixelFormat.RGBBitCount = 8 /\ hdr.PixelFormat.GBitMask = 0
                   /\ \E dx10 \in SampleDXT10Headers :
                         ddsStream = Stream("DDS ", TRUE, hdr, TRUE, dx10, PatternBytes(1, len))
                \/ /\ hdr = ZeroHeader /\ len = 0
                   /\ ddsStream \in { Stream("DDS ", FALSE, ZeroHeader, FALSE, ZeroDXT10Header, <<>>),
                                      Stream("RIFF", TRUE, ZeroHeader, FALSE, ZeroDXT10Header, <<>>) }

\* WriteHDR(w, ddsImg) with a fresh w, which becomes the stream.
CallWriteHDR ==
    /\ ddsPc = "img"
    /\ LET r == WriteHDR(ddsImg)
       IN  /\ ddsRet' = DdsRet("WriteHDR", r.err, ZeroInfo)
           /\ ddsSrc' = ddsImg
           /\ ddsImg' = r.img
           /\ ddsStream' = r.stream
           /\ ddsPc' = IF r.err = "" THEN "stream" ELSE "done"

\* DecodeInfo(ddsStream)
CallDecodeInfo ==
    /\ ddsPc = "stream"
    /\ LET r == DecodeInfo(ddsStream)
       IN  ddsRet' = DdsRet("DecodeInfo", r.err, r.info)
    /\ ddsPc' = "done"
    /\ UNCHANGED <<ddsImg, ddsStream, ddsSrc>>

\* ddsImg, err = Decode(ddsStream, readMipMaps)
CallDecode(readMipMaps) ==
    /\ ddsPc = "stream"
    /\ LET r == Decode(ddsStream, readMipMaps)
       IN  /\ ddsRet' = [DdsRet("Decode", r.err, ZeroInfo) EXCEPT !.readMipMaps = readMipMaps]
           /\ ddsImg' = r.dds
           /\ ddsPc' = IF r.err = "" THEN "img" ELSE "done"
    /\ UNCHANGED <<ddsStream, ddsSrc>>

DdsNext ==
    \/ CallWriteHDR /\ OthersUnchanged("dds")
    \/ CallDecodeInfo /\ OthersUnchanged("dds")
    \/ (\E readMipMaps \in BOOLEAN : CallDecode(readMipMaps)) /\ OthersUnchanged("dds")

InitDds == DdsInit /\ OthersIdle("dds")

SpecDds == InitDds /\ [][DdsNext]_vars

\* The channel c (0..3) of pixel n (from 0) of a 16-byte-per-pixel Pix, as
\* its four bytes.
Channel128(pix, n, c) == SubSeq(pix, 16 * n + 4 * c + 1, 16 * n + 4 * c + 4)

\* The first mipmap of the first image of the decoded DDS.
FirstMipMap == ddsImg.Images[1].MipMaps[1]

\* Decode just read what WriteHDR wrote for a freshly allocated
\* NRGBA128FImage of at least one pixel.
DecodedWrittenPlane ==
    /\ ddsRet.op = "Decode"
    /\ ~ddsSrc.wrapper
    /\ ddsSrc.type = "NRGBA128FImage"
    /\ ddsSrc.W >= 1 /\ ddsSrc.H >= 1

PixelFormatOfStream == ddsStream.Header.PixelFormat

\* The header is one the claim calls unsupported.
UnsupportedFormat ==
    \/ PixelFormatOfStream.FourCC = "DXT3"
    \/ PixelFormatOfStream.FourCC \notin KnownFourCCs
    \/ /\ ddsStream.hasDXT10
       /\ \/ ddsStream.DXT10Header.DXGIFormat \in {"BC2UNorm", "BC7UNormSRGB"}
          \/ ddsStream.DXT10Header.DXGIFormat \notin KnownDXGIFormats

\* The pixel format flags make the FourCC count: its flag is set and none
\* of the RGB, YUV and Luminance flags is.
FourCCCounts ==
    /\ "FourCC" \in PixelFormatOfStream.Flags
    /\ PixelFormatOfStream.Flags \cap {"RGB", "YUV", "Luminance"} = {}

Rejected == ddsRet.err # "" /\ ddsRet.info = ZeroInfo

\* C7 as claimed: DecodeInfo returns an error and the zero Info for every
\* header whose FourCC is DXT3 or unknown or whose DXT10 format is BC2UNorm,
\* BC7UNormSRGB or unknown; the error for DXT3 and BC2 names DXT3.
C7_RejectsUnsupportedFormat ==
    (ddsRet.op = "DecodeInfo" /\ UnsupportedFormat) =>
        /\ Rejected
        /\ (PixelFormatOfStream.FourCC = "DXT3"
              \/ (ddsStream.hasDXT10 /\ ddsStream.DXT10Header.DXGIFormat = "BC2UNorm"))
           => ddsRet.err = "DXT3 compression unsupported"

\* C7 as amended: the same for the headers in which the FourCC counts; the
\* error names DXT3 for the FourCC DXT3 and for BC2UNorm in a 2-D texture
\* resource.  Every error comes with the zero Info.
C7_RejectsUnsupportedFormatWhenFourCCCounts ==
    ddsRet.op = "DecodeInfo" =>
        /\ ddsRet.err # "" => ddsRet.info = ZeroInfo
        /\ (FourCCCounts /\ UnsupportedFormat) =>
              /\ Rejected
              /\ (PixelFormatOfStream.FourCC = "DXT3"
                    \/ (/\ ddsStream.hasDXT10
                        /\ ddsStream.DXT10Header.DXGIFormat = "BC2UNorm"
                        /\ ddsStream.DXT10Header.ResourceDimension = "Texture2D"))
                 => ddsRet.err = "DXT3 compression unsupported"

\* A DX10 file of format BC2UNorm, a 2-D texture, was rejected as DXT3.
C7_Witness ==
    /\ ddsRet.op = "DecodeInfo"
    /\ FourCCCounts
    /\ ddsStream.hasDXT10
    /\ ddsStream.DXT10Header.DXGIFormat = "BC2UNorm"
    /\ ddsStream.DXT10Header.ResourceDimension = "Texture2D"
    /\ ddsRet.err = "DXT3 compression unsupported"
    /\ ddsRet.info = ZeroInfo

\* C10: WriteHDR returns an error for every image whose colour model is not
\* one of the three HDR models, be it a plain image or a decoded *DDS.
C10_WriteHDRRejectsNonHDR ==
    (ddsRet.op = "WriteHDR" /\ ColorModelOf(ddsSrc.type) \notin HDRModels) =>
        ddsRet.err # ""

(***************************************************************************)
(* openexr: WriteHDR, LoadOpenEXR and HdrImage of a 32-bit-float plane.    *)
(***************************************************************************)

\* PixelType.Size() of TypeFloat, and Compression.LineCount() of ZIP.
TypeFloatSize == 4
ZipLineCount == 16

\* The channels openEXRFromHDRImage declares, in file order.
ChannelNames == <<"A", "B", "G", "R">>

Channel(name, pixelFmt) ==
    [Name |-> name, PixelFmt |-> pixelFmt, Linear |-> 0, XSampling |-> 1, YSampling |-> 1]

\* PixelType.Size().
PixelTypeSize(pixelFmt) ==
    CASE pixelFmt = "TypeUInt"  -> 4
      [] pixelFmt = "TypeHalf"  -> 2
      [] pixelFmt = "TypeFloat" -> TypeFloatSize
      [] OTHER                  -> 0

Box2i(xMin, yMin, xMax, yMax) == [XMin |-> xMin, YMin |-> yMin, XMax |-> xMax, YMax |-> yMax]

Box2iWidth(b) == b.XMax - b.XMin + 1

Box2iHeight(b) == b.YMax - b.YMin + 1

\* The contents of ScanLine.Data: either the bytes themselves, or a zlib
\* stream of `len` bytes that inflates to `bytes`.
RawData(bytes) == [zlib |-> FALSE, len |-> Len(bytes), bytes |-> bytes]

ZlibData(len, bytes) == [zlib |-> TRUE, len |-> len, bytes |-> bytes]

ScanLine(yCoord, size, data, compressed, lineCount) ==
    [YCoord |-> yCoord, Size |-> size, Data |-> data,
     Compressed |-> compressed, LineCount |-> lineCount]

\* ScanLine.offset: where the value of (x, y, channel) starts in Data.
offset(s, x, y, channel, depth, typ, window) ==
    LET width         == Box2iWidth(window)
        bytesPerValue == PixelTypeSize(typ)
        channelStride == width * bytesPerValue
        lineStride    == channelStride * depth
    IN  IF \/ y >= s.YCoord + s.LineCount
           \/ y < s.YCoord
           \/ x < window.XMin
           \/ x > window.XMax
        THEN -1
        ELSE IF s.Compressed THEN -2
        ELSE (y - s.YCoord) * lineStride + channel * channelStride + x * bytesPerValue

\* A *hdrColors.NRGBA128FImage as NewNRGBA128FImage makes it, with its bytes.
ExrPlane(r, pix) == [Rect |-> r, Stride |-> nrgba128FPixelBytes * Dx(r), Pix |-> pix]

\* NRGBA128FImage.PixOffset.
ExrPixOffset(p, x, y) ==
    (y - p.Rect.Min.Y) * p.Stride + (x - p.Rect.Min.X) * nrgba128FPixelBytes

\* The block of openEXRFromHDRImage that starts at row yCoord: every row of
\* the plane in yCoord..yCoord+LineCount-1 is copied channel by channel to
\* scanline.offset(column, row, channel); the rest keeps make's zeros.
BlockOf(img, yCoord, dataWindow) ==
    LET depth   == Len(ChannelNames)
        size    == TypeFloatSize
        width   == Box2iWidth(dataWindow)
        height  == Box2iHeight(dataWindow)
        uncompressedSize == ZipLineCount * width * size * depth
        blank   == ScanLine(yCoord, uncompressedSize, RawData(<<>>), FALSE, ZipLineCount)
        lineStride    == width * size * depth
        channelStride == width * size
        cell(q) ==
            LET row     == yCoord + (q \div lineStride)
                channel == (q % lineStride) \div channelStride
                column  == (q % channelStride) \div size
                k       == q % size
            IN  IF row < height /\ offset(blank, column, row, channel, depth, "TypeFloat", dataWindow) + k = q
                THEN img.Pix[ExrPixOffset(img, column, row) + (3 - channel) * size + k + 1]
                ELSE 0
    IN  ScanLine(yCoord, uncompressedSize,
                 RawData([p \in 1..uncompressedSize |-> cell(p - 1)]),
                 FALSE, ZipLineCount)

\* openEXRFromHDRImage for a *NRGBA128FImage: header and raw blocks.
openEXRFromHDRImage(img) ==
    LET dataWindow == Box2i(img.Rect.Min.X, img.Rect.Min.Y, img.Rect.Max.X - 1, img.Rect.Max.Y - 1)
        height     == Box2iHeight(dataWindow)
        count      == (height + ZipLineCount - 1) \div ZipLineCount
        scanlines  == [i \in 1..count |-> BlockOf(img, (i - 1) * ZipLineCount, dataWindow)]
    IN  [Channels |-> [i \in 1..Len(ChannelNames) |-> Channel(ChannelNames[i], "TypeFloat")],
         Compression |-> "CompressionZIP",
         DataWindow |-> dataWindow,
         DisplayWindow |-> dataWindow,
         OffsetTableLen |-> count,
         ScanLines |-> scanlines]

\* compressZip: reorder, deconstruct, deflate to a stream of streamLen bytes,
\* of which compressed.Next(n) returns at most the n bytes that went in.
compressZip(bytes, streamLen) ==
    ZlibData(Min2(streamLen, Len(bytes)), deconstruct(reorder(bytes)))

\* ScanLine.Compress with CompressionZIP.
ScanLineCompress(s, streamLen) ==
    IF s.Compressed THEN s
    ELSE LET data == compressZip(s.Data.bytes, streamLen)
             kept == IF data.len < s.Data.len THEN data ELSE s.Data
         IN  ScanLine(s.YCoord, kept.len, kept, TRUE, s.LineCount)

\* dumpAttributes: the eight attributes, by name.
dumpAttributes(exr) ==
    <<[Name |-> "channels", Value |-> exr.Channels],
      [Name |-> "compression", Value |-> exr.Compression],
      [Name |-> "dataWindow", Value |-> exr.DataWindow],
      [Name |-> "displayWindow", Value |-> exr.DisplayWindow],
      [Name |-> "lineOrder", Value |-> "OrderIncreasingY"],
      [Name |-> "pixelAspectRatio", Value |-> "1.0"],
      [Name |-> "screenWindowCenter", Value |-> "0,0"],
      [Name |-> "screenWindowWidth", Value |-> "1.0"]>>

\* The type name dumpAttributes writes for each attribute.
AttributeType(name) ==
    CASE name = "channels" -> "chlist"
      [] name = "compression" -> "compression"
      [] name \in {"dataWindow", "displayWindow"} -> "box2i"
      [] name = "lineOrder" -> "lineOrder"
      [] name = "screenWindowCenter" -> "v2f"
      [] OTHER -> "float"

\* The bytes of the channel list: for the first n channels the name, a zero
\* byte and four uint32.
RECURSIVE ChannelsLen(_, _)
ChannelsLen(channels, n) ==
    IF n = 0 THEN 0 ELSE ChannelsLen(channels, n - 1) + Len(channels[n].Name) + 1 + 16

\* The bytes of the value of each attribute: the channel list and its zero
\* byte, a uint8, four uint32, a uint8, a float32, two float32, a float32.
AttributeDataLen(a) ==
    CASE a.Name = "channels" -> ChannelsLen(a.Value, Len(a.Value)) + 1
      [] a.Name \in {"compression", "lineOrder"} -> 1
      [] a.Name \in {"dataWindow", "displayWindow"} -> 16
      [] a.Name = "screenWindowCenter" -> 8
      [] OTHER -> 4

\* dumpAttribute: name, zero byte, type, zero byte, a uint32 and the value.
AttributeLen(a) ==
    Len(a.Name) + 1 + Len(AttributeType(a.Name)) + 1 + 4 + AttributeDataLen(a)

RECURSIVE AttributesLen(_, _)
AttributesLen(attributes, n) ==
    IF n = 0 THEN 0 ELSE AttributesLen(attributes, n - 1) + AttributeLen(attributes[n])

\* w.Seek(0, io.SeekCurrent) in dump, on a writer that started at 0: the
\* magic, the version and flags, the attributes and the zero byte after them.
TablePosition(attributes) == 4 + 4 + AttributesLen(attributes, Len(attributes)) + 1

\* An offset that advances by the data of a block only.
OffsetAdvanceDataOnly(s) == s.Size

\* offset += int64(8 + exr.ScanLines[i].Size)
OffsetAdvance(s) == 8 + s.Size

\* The value of offset that dump writes as entry i (from 1) of the table.
RECURSIVE TableEntry(_, _, _)
TableEntry(scanlines, first, i) ==
    IF i = 1 THEN first
    ELSE TableEntry(scanlines, first, i - 1) + OffsetAdvance(scanlines[i - 1])

\* OpenEXR.dump: attributes, one offset per block, and for every block its
\* YCoord, the length of its data and the data, compressed first.
ExrDump(exr, streamLens) ==
    LET compressed == [i \in DOMAIN exr.ScanLines |->
                          ScanLineCompress(exr.ScanLines[i], streamLens[i])]
        first      == TablePosition(dumpAttributes(exr)) + 8 * Len(exr.ScanLines)
    IN  [Attributes |-> dumpAttributes(exr),
         OffsetTableLen |-> Len(exr.ScanLines),
         OffsetTable |-> [i \in DOMAIN compressed |-> TableEntry(compressed, first, i)],
         Blocks |-> [i \in DOMAIN compressed |->
                        [YCoord |-> compressed[i].YCoord,
                         Size |-> compressed[i].Data.len,
                         Data |-> compressed[i].Data]]]

\* Compression.LineCount().
CompressionLineCount(c) ==
    CASE c \in {"CompressionNone", "CompressionRLE", "CompressionZIPS"} -> 1
      [] c = "CompressionZIP" -> ZipLineCount
      [] c = "CompressionPXR24" -> 16
      [] c \in {"CompressionPIZ", "CompressionB44", "CompressionB44A", "CompressionDWAA"} -> 32
      [] c = "CompressionDWAB" -> 256
      [] OTHER -> -1

\* The value the switch of loadEXRHeader leaves for `name`: that of its last
\* occurrence, or the zero value.
AttributeValue(attrs, name, zero) ==
    LET at == {i \in DOMAIN attrs : attrs[i].Name = name}
    IN  IF at = {} THEN zero
        ELSE attrs[CHOOSE i \in at : \A j \in at : j <= i].Value

ExrHeader(err, channels, compression, dataWindow, offsetTableLen) ==
    [err |-> err, Channels |-> channels, Compression |-> compression,
     DataWindow |-> dataWindow, OffsetTableLen |-> offsetTableLen]

\* loadEXRHeader on a file with a good magic number and version.
loadEXRHeader(file) ==
    LET attrs       == file.Attributes
        seen        == {attrs[i].Name : i \in DOMAIN attrs}
        channels    == AttributeValue(attrs, "channels", <<>>)
        compression == AttributeValue(attrs, "compression", "CompressionNone")
        dataWindow  == AttributeValue(attrs, "dataWindow", Box2i(0, 0, 0, 0))
        lineCount   == dataWindow.YMax - dataWindow.YMin + 1
        perBlock    == CompressionLineCount(compression)
        scanlineCount ==
            (lineCount \div perBlock) + (IF lineCount % perBlock # 0 THEN 1 ELSE 0)
    IN  IF Range(RequiredFieldNames) \ seen # {}
        THEN ExrHeader("exr missing required fields", <<>>, "CompressionNone", Box2i(0, 0, 0, 0), 0)
        ELSE IF file.OffsetTableLen < scanlineCount
        THEN ExrHeader("unexpected EOF", <<>>, "CompressionNone", Box2i(0, 0, 0, 0), 0)
        ELSE ExrHeader("", channels, compression, dataWindow, scanlineCount)

RECURSIVE SumSizes(_, _)
\* The sum of channel.PixelFmt.Size() over the first n channels.
SumSizes(channels, n) ==
    IF n = 0 THEN 0
    ELSE SumSizes(channels, n - 1) + PixelTypeSize(channels[n].PixelFmt)

\* A uint32 is held as the signed integer of the same 32 bits, so that a
\* difference that wraps around is a negative number here.
U32Sub(a, b) == a - b

\* a < b for two uint32.
U32Less(a, b) == IF (a < 0) = (b < 0) THEN a < b ELSE b < 0

\* min(a, b) for two uint32.
U32Min(a, b) == IF U32Less(b, a) THEN b ELSE a

\* A height that no pass of the loop lowers.
HeightNeverLowered(height, perBlock, n) == height

RECURSIVE HeightLeft(_, _, _)
\* The variable height of LoadOpenEXR after n passes of its loop, each of
\* which ends with height -= uint32(header.Compression.LineCount()).
HeightLeft(height, perBlock, n) ==
    IF n = 0 THEN height
    ELSE U32Sub(HeightLeft(height, perBlock, n - 1), perBlock)

\* LoadOpenEXR: the header, then one block per offset-table entry; a block
\* counts as compressed when it is shorter than lineCount * width * pixelSize,
\* where width is taken from the Y extent of the data window as height is.
LoadOpenEXR(file) ==
    LET header    == loadEXRHeader(file)
        height    == header.DataWindow.YMax - header.DataWindow.YMin + 1
        width     == header.DataWindow.YMax - header.DataWindow.YMin + 1
        pixelSize == SumSizes(header.Channels, Len(header.Channels))
        perBlock  == CompressionLineCount(header.Compression)
        scanline(i) ==
            LET block     == file.Blocks[i]
                remaining == HeightLeft(height, perBlock, i - 1)
                lineCount == U32Min(remaining, perBlock)
            IN  ScanLine(block.YCoord, block.Size, block.Data,
                         U32Less(block.Size, lineCount * width * pixelSize), lineCount)
    IN  IF header.err # "" THEN [err |-> header.err, Header |-> header, ScanLines |-> <<>>]
        ELSE IF Len(file.Blocks) < header.OffsetTableLen
        THEN [err |-> "unexpected EOF", Header |-> header, ScanLines |-> <<>>]
        ELSE [err |-> "", Header |-> header,
              ScanLines |-> [i \in 1..header.OffsetTableLen |-> scanline(i)]]

\* The two bytes zlib.NewWriter puts first, at the default level.
ZlibHeader == <<120, 156>>

\* A byte of a zlib stream past its header; the model does not compute it.
UndeterminedByte == -1

\* The byte at 0-based position o of ScanLine.Data as bytes.NewReader sees it.
DataByte(data, o) ==
    IF ~data.zlib THEN data.bytes[o + 1]
    ELSE IF o < Len(ZlibHeader) THEN ZlibHeader[o + 1]
    ELSE UndeterminedByte

\* zlib.NewReader's test of the first two bytes.
ZlibHeaderOk(b0, b1) ==
    /\ b0 % 16 = 8
    /\ b0 \div 16 <= 7
    /\ (b0 * 256 + b1) % 31 = 0

\* decompressZip: inflate, reconstruct, interleave.  Bytes that are no zlib
\* stream fail the header test, or the decoding after it.
decompressZip(data) ==
    IF data.zlib
    THEN [err |-> "", data |-> RawData(interleave(reconstruct(data.bytes)))]
    ELSE IF data.len >= 2 /\ ZlibHeaderOk(data.bytes[1], data.bytes[2])
    THEN [err |-> "flate: corrupt input", data |-> data]
    ELSE [err |-> "zlib: invalid header", data |-> data]

\* decompressNone and decompressNotImplemented.
decompressNone(data) == [err |-> "", data |-> data]

decompressNotImplemented(data) == [err |-> "unimplemented compression scheme", data |-> data]

\* A Decompress that hands the data of every scheme back as it is.
ScanLineDecompressAllAsNone(s, compression) ==
    [err |-> "", s |-> ScanLine(s.YCoord, s.Size, s.Data, FALSE, s.LineCount)]

\* ScanLine.Decompress: nothing for a block not marked compressed, else the
\* function the switch on the compression selects.
ScanLineDecompress(s, compression) ==
    IF ~s.Compressed THEN [err |-> "", s |-> s]
    ELSE LET res == CASE compression = "CompressionNone" -> decompressNone(s.Data)
                      [] compression \in {"CompressionZIPS", "CompressionZIP"} -> decompressZip(s.Data)
                      [] OTHER -> decompressNotImplemented(s.Data)
         IN  IF res.err # "" THEN [err |-> res.err, s |-> s]
             ELSE [err |-> "", s |-> ScanLine(s.YCoord, s.Size, res.data, FALSE, s.LineCount)]

ExrImageResult(panic, err, img) == [panic |-> panic, err |-> err, img |-> img]

NoExrPlane == ExrPlane(ZR, <<>>)

\* PixelType.Model(), as the plane type HdrImage allocates for it.
PlaneTypeOf(pixelFmt) ==
    CASE pixelFmt = "TypeUInt"  -> "NRGBA128UImage"
      [] pixelFmt = "TypeHalf"  -> "NRGBA64FImage"
      [] pixelFmt = "TypeFloat" -> "NRGBA128FImage"
      [] OTHER                  -> "nil"

\* A plane of the type that goes with pixelFmt, as its constructor makes it.
ExrPlaneOf(pixelFmt, r, pix) ==
    [Rect |-> r, Stride |-> BytesPerPixel(PlaneTypeOf(pixelFmt)) * Dx(r), Pix |-> pix]

\* The buffer `one` of HdrImage after binary.Encode: 0xFFFFFFFF, the half
\* 1.0 (0x3C00), and for TypeFloat the zeros of make, because the untyped
\* constant 1.0 is handed over as a float64, which the four bytes cannot hold.
OneBytes(pixelFmt) ==
    CASE pixelFmt = "TypeUInt"  -> <<255, 255, 255, 255>>
      [] pixelFmt = "TypeHalf"  -> <<0, 60>>
      [] pixelFmt = "TypeFloat" -> <<0, 0, 0, 0>>

\* OpenEXR.HdrImage: every block is decompressed and each of its
\* LineCount * depth * width values is read at scanline.offset and stored
\* at PixOffset(x, y) + (depth-j-1) * size of a new plane; with three
\* channels `one` is stored as the fourth value of the pixel.  A read past
\* the end of the data panics, a failing Decompress returns its error.
HdrImage(exr) ==
    LET window == exr.Header.DataWindow
        width  == Box2iWidth(window)
        depth  == Len(exr.Header.Channels)
        typ    == exr.Header.Channels[1].PixelFmt
        size   == PixelTypeSize(typ)
        bpp    == BytesPerPixel(PlaneTypeOf(typ))
        bounds == Rect(window.XMin, window.YMin, window.XMax + 1, window.YMax + 1)
        shape  == ExrPlaneOf(typ, bounds, <<>>)
        dec    == [i \in DOMAIN exr.ScanLines |->
                      ScanLineDecompress(exr.ScanLines[i], exr.Header.Compression)]
        from(i, x, y, j) ==
            offset(dec[i].s, x, y, j, depth, exr.Header.Channels[j + 1].PixelFmt, window)
        short(i) ==
            \E l \in 0..(dec[i].s.LineCount - 1), j \in 0..(depth - 1), k \in 0..(width - 1) :
                from(i, k, dec[i].s.YCoord + l, j) + size > dec[i].s.Data.len
        status(i) ==
            IF dec[i].err # "" THEN "err" ELSE IF short(i) THEN "panic" ELSE "ok"
        bad    == {i \in DOMAIN dec : status(i) # "ok"}
        first  == CHOOSE i \in bad : \A j \in bad : i <= j
        cell(q) ==
            LET y  == bounds.Min.Y + (q \div shape.Stride)
                x  == bounds.Min.X + ((q % shape.Stride) \div bpp)
                c  == (q % bpp) \div size
                b  == q % size
                by == {i \in DOMAIN dec :
                          dec[i].s.YCoord <= y /\ y < dec[i].s.YCoord + dec[i].s.LineCount}
                i  == CHOOSE i \in by : \A j \in by : j <= i
            IN  IF by = {} THEN 0
                ELSE IF c < depth THEN DataByte(dec[i].s.Data, from(i, x, y, depth - c - 1) + b)
                ELSE IF depth = 3 THEN OneBytes(typ)[b + 1]
                ELSE 0
    IN  IF bad # {}
        THEN IF status(first) = "panic"
             THEN ExrImageResult(TRUE, "", NoExrPlane)
             ELSE ExrImageResult(FALSE, dec[first].err, NoExrPlane)
        ELSE ExrImageResult(FALSE, "",
                 ExrPlaneOf(typ, bounds, [p \in 1..(bpp * Dx(bounds) * Dy(bounds)) |-> cell(p - 1)]))

\* The planes written: bounds (0,0)-(w,h) up to these sizes.
MaxExrWidth == 2
MaxExrHeight == 17

\* The shortest zlib stream the writer is given: header, one block, checksum.
MinStreamLen == 8

\* The lengths the deflate step may yield for a block of n bytes.
DeflateLengths(n) ==
    {MinStreamLen, n \div 16, n \div 4, n \div 2, n - 1, n, n + 1}

ExrPlanes ==
    { ExrPlane(Rect(0, 0, w, h), PatternBytes(seed, nrgba128FPixelBytes * w * h)) :
        w \in 1..MaxExrWidth, h \in 1..MaxExrHeight, seed \in 1..MaxSeed }

ExrRet(op, res) == [op |-> op, panic |-> res.panic, err |-> res.err, img |-> res.img]

\* The compression schemes of the Compression enum.
ExrCompressions ==
    {"CompressionNone", "CompressionRLE", "CompressionZIPS", "CompressionZIP",
     "CompressionPIZ", "CompressionPXR24", "CompressionB44", "CompressionB44A",
     "CompressionDWAA", "CompressionDWAB"}

\* The channel lists of the files read: B, G, R with or without A, and
\* B, G, R with a depth channel Z.
ChannelLists(pixelFmt) ==
    { [i \in 1..3 |-> Channel(ChannelNames[i + 1], pixelFmt)],
      [i \in 1..4 |-> Channel(ChannelNames[i], pixelFmt)],
      [i \in 1..4 |-> Channel(<<"B", "G", "R", "Z">>[i], pixelFmt)] }

\* Width and height of the data windows of the files read.
WindowSamples == { <<1, 1>>, <<2, 1>>, <<1, 2>>, <<2, 3>>, <<1, 17>> }

\* How the blocks of a file read are stored: the rows of the block as they
\* are, something shorter (a zlib stream for the ZIP schemes), or the rows
\* with a byte more.
BlockKinds == {"raw", "packed", "long"}

\* Block i (from 1) of a file of the given shape.
SampleBlock(kind, compression, channels, w, h, i) ==
    LET perBlock == CompressionLineCount(compression)
        yCoord   == (i - 1) * perBlock
        lines    == Min2(perBlock, h - yCoord)
        rawLen   == lines * w * SumSizes(channels, Len(channels))
        rows     == PatternBytes(i, rawLen)
        data     == CASE kind = "raw"  -> RawData(rows)
                      [] kind = "long" -> RawData(PatternBytes(i, rawLen + 1))
                      [] OTHER ->
                            IF compression \in {"CompressionZIPS", "CompressionZIP"}
                            THEN ZlibData(Max2(MinStreamLen, rawLen \div 2), deconstruct(reorder(rows)))
                            ELSE RawData(PatternBytes(i, rawLen \div 2))
    IN  [YCoord |-> yCoord, Size |-> data.len, Data |-> data]

\* A file as a writer of the format lays it out, anchored at (0, 0).
SampleFile(kind, compression, channels, w, h) ==
    LET perBlock == CompressionLineCount(compression)
        count    == (h + perBlock - 1) \div perBlock
        window   == Box2i(0, 0, w - 1, h - 1)
    IN  [Attributes |-> dumpAttributes([Channels |-> channels, Compression |-> compression,
                                        DataWindow |-> window, DisplayWindow |-> window]),
         OffsetTableLen |-> count,
         Blocks |-> [i \in 1..count |-> SampleBlock(kind, compression, channels, w, h, i)]]

ExrFiles ==
    { SampleFile(kind, compression, channels, size[1], size[2]) :
        kind \in BlockKinds, compression \in ExrCompressions,
        channels \in UNION {ChannelLists(t) : t \in {"TypeUInt", "TypeHalf", "TypeFloat"}},
        size \in WindowSamples }

\* Either a plane to be written and read back, or a file to be read.
ExrInit ==
    /\ \/ /\ exrPc = "img"
          /\ exrImg \in ExrPlanes
          /\ exrFile = <<>>
       \/ /\ exrPc = "file"
          /\ exrImg = NoExrPlane
          /\ exrFile \in ExrFiles
    /\ exrLoaded = <<>>
    /\ exrRet = ExrRet("none", ExrImageResult(FALSE, "", NoExrPlane))

\* openexr.WriteHDR(w, img) on a seekable writer that takes every byte.
CallExrWriteHDR ==
    /\ exrPc = "img"
    /\ LET exr == openEXRFromHDRImage(exrImg)
       IN  \E streamLens \in [DOMAIN exr.ScanLines -> DeflateLengths(exr.ScanLines[1].Size)] :
               exrFile' = ExrDump(exr, streamLens)
    /\ exrRet' = ExrRet("WriteHDR", ExrImageResult(FALSE, "", NoExrPlane))
    /\ exrPc' = "file"
    /\ UNCHANGED <<exrImg, exrLoaded>>

\* LoadOpenEXR on the bytes written.
CallLoadOpenEXR ==
    /\ exrPc = "file"
    /\ exrLoaded' = LoadOpenEXR(exrFile)
    /\ exrRet' = ExrRet("LoadOpenEXR", ExrImageResult(FALSE, exrLoaded'.err, NoExrPlane))
    /\ exrPc' = IF exrLoaded'.err = "" THEN "loaded" ELSE "done"
    /\ UNCHANGED <<exrImg, exrFile>>

\* HdrImage on what LoadOpenEXR returned.
CallHdrImage ==
    /\ exrPc = "loaded"
    /\ exrRet' = ExrRet("HdrImage", HdrImage(exrLoaded))
    /\ exrPc' = "done"
    /\ UNCHANGED <<exrImg, exrFile, exrLoaded>>

\* NRGBA128U.Channel, NRGBA64F.Channel, NRGBA128F.Channel: the field the
\* pointer returned points to, or nil.
PixelChannel(ch) == IF ch \in {"R", "G", "B", "A"} THEN ch ELSE "nil"

\* The pixel At starts from: black, with alpha 0xFFFFFFFF, the half 1.0 or
\* the float32 1.0.
AtStartPixel(pixelFmt) ==
    LET zero == [k \in 1..PixelTypeSize(pixelFmt) |-> 0]
    IN  [R |-> zero, G |-> zero, B |-> zero,
         A |-> CASE pixelFmt = "TypeUInt"  -> <<255, 255, 255, 255>>
                 [] pixelFmt = "TypeHalf"  -> <<0, 60>>
                 [] pixelFmt = "TypeFloat" -> <<0, 0, 128, 63>>]

AtResultOf(panic, pixel) == [panic |-> panic, pixel |-> pixel]

\* The loop of At over the channels, from channel i (from 1) on, for a place
\* (x, y) of the block s.  binary.Read is handed px.Channel(channel.Name):
\* for a pointer to a field it stores the bytes it could read in full; for
\* the nil *uint32 and *float32 it reads the bytes and stores through the
\* pointer, which panics, unless the data ends before; for the nil
\* *float16.Float16 it returns an error before reading.
RECURSIVE AtChannels(_, _, _, _, _, _)
AtChannels(header, s, x, y, i, pixel) ==
    IF i > Len(header.Channels) THEN AtResultOf(FALSE, pixel)
    ELSE LET channel  == header.Channels[i]
             pixelFmt == header.Channels[1].PixelFmt
             size     == PixelTypeSize(pixelFmt)
             off      == offset(s, x, y, i - 1, Len(header.Channels), channel.PixelFmt,
                                header.DataWindow)
             readable == off + size <= s.Data.len
             field    == PixelChannel(channel.Name)
         IN  IF channel.PixelFmt # pixelFmt THEN AtResultOf(TRUE, pixel)
             ELSE IF field = "nil"
             THEN IF pixelFmt = "TypeHalf" \/ ~readable
                  THEN AtChannels(header, s, x, y, i + 1, pixel)
                  ELSE AtResultOf(TRUE, pixel)
             ELSE AtChannels(header, s, x, y, i + 1,
                             IF readable
                             THEN [pixel EXCEPT ![field] = [k \in 1..size |-> DataByte(s.Data, off + k - 1)]]
                             ELSE pixel)

\* The index of the first block that holds row y, or 0 as in the code (here
\* from 1).
AtIndex(scanlines, y) ==
    LET holding == {i \in DOMAIN scanlines :
                      scanlines[i].YCoord <= y /\ y < scanlines[i].YCoord + scanlines[i].LineCount}
    IN  IF holding = {} THEN 1
        ELSE CHOOSE i \in holding : \A k \in holding : i <= k

\* OpenEXR.At(x, y) for a place of the data window: the pixel returned or a
\* panic, and the blocks after the call, of which one was decompressed.
ExrAt(exr, x, y) ==
    LET index == AtIndex(exr.ScanLines, y)
        d     == ScanLineDecompress(exr.ScanLines[index], exr.Header.Compression)
        start == AtStartPixel(exr.Header.Channels[1].PixelFmt)
    IN  IF d.err # ""
        THEN [panic |-> TRUE, pixel |-> start, ScanLines |-> exr.ScanLines]
        ELSE LET res == AtChannels(exr.Header, d.s, x, y, 1, start)
             IN  [panic |-> res.panic, pixel |-> res.pixel,
                  ScanLines |-> [exr.ScanLines EXCEPT ![index] = d.s]]

\* exrLoaded.At(x, y) at a corner of the data window.
CallExrAt ==
    /\ exrPc = "loaded"
    /\ \E x \in {exrLoaded.Header.DataWindow.XMin, exrLoaded.Header.DataWindow.XMax},
          y \in {exrLoaded.Header.DataWindow.YMin, exrLoaded.Header.DataWindow.YMax} :
          LET res == ExrAt(exrLoaded, x, y)
          IN  /\ exrRet' = [op |-> "At", panic |-> res.panic, err |-> "", img |-> NoExrPlane,
                            pixel |-> res.pixel, x |-> x, y |-> y]
              /\ exrLoaded' = [exrLoaded EXCEPT !.ScanLines = res.ScanLines]
    /\ exrPc' = "done"
    /\ UNCHANGED <<exrImg, exrFile>>

ExrNext ==
    \/ CallExrWriteHDR /\ OthersUnchanged("exr")
    \/ CallLoadOpenEXR /\ OthersUnchanged("exr")
    \/ CallHdrImage /\ OthersUnchanged("exr")
    \/ CallExrAt /\ OthersUnchanged("exr")

InitExr == ExrInit /\ OthersIdle("exr")

SpecExr == InitExr /\ [][ExrNext]_vars

\* The plane HdrImage returned is the plane written: no panic, no error, the
\* same bounds and the same bytes in every pixel.
ExrReadBack ==
    /\ ~exrRet.panic
    /\ exrRet.err = ""
    /\ exrRet.img.Rect = exrImg.Rect
    /\ exrRet.img.Pix = exrImg.Pix

\* The reader's test for a compressed block agrees with what the writer did.
ExrFlagsAgree ==
    \A i \in DOMAIN exrLoaded.ScanLines :
        exrLoaded.ScanLines[i].Compressed = exrLoaded.ScanLines[i].Data.zlib

\* C1: for every 32-bit-float plane with bounds anchored at (0,0), of any
\* width and height >= 1, and whatever length the deflate step yields for
\* each block, WriteHDR followed by LoadOpenEXR and HdrImage returns a plane
\* with the same bounds whose every pixel equals the original pixel.
C1_EXRRoundTrip ==
    (exrPc = "done" /\ exrImg # NoExrPlane) => ExrReadBack

\* A round trip that does reproduce the plane: the flags agree.
C1_RoundTripWhenFlagsAgree ==
    (exrPc = "done" /\ exrImg # NoExrPlane /\ exrRet.op = "HdrImage" /\ ExrFlagsAgree)
        => ExrReadBack

C1_SomeRoundTripWorks ==
    /\ exrPc = "done" /\ exrImg # NoExrPlane
    /\ ExrReadBack /\ ExrFlagsAgree /\ Dy(exrImg.Rect) = MaxExrHeight

C1_SomeRoundTripFails ==
    /\ exrPc = "done" /\ exrImg # NoExrPlane
    /\ ~ExrReadBack /\ Dx(exrImg.Rect) = 1 /\ Dy(exrImg.Rect) = 1

(***************************************************************************)
(* dds: what WriteHDR writes and leaves behind.                            *)
(***************************************************************************)

\* WriteHDR returned nil for an image of one of the three HDR models.
WroteHDRImage ==
    /\ ddsRet.op = "WriteHDR"
    /\ ddsRet.err = ""
    /\ ColorModelOf(ddsSrc.type) \in HDRModels

\* The DXGI format goes with the colour model: it is the one WriteHDR
\* declares for the model, or one DecodeInfo reads as the model.
FormatMatchesModel(fmt, model) ==
    \/ fmt = WriteHDRFormat(model)
    \/ ClassifyDXGI(fmt).model = model

\* C11: every stream WriteHDR writes successfully, for a plain HDR plane or
\* a decoded *DDS (one decoded from an array or cubemap file included), is
\* the magic "DDS ", a header with FourCC "DX10" and MipMapCount 1, a DXT10
\* header with the DXGI format of the image's colour model, ArraySize 1 and
\* the 2-D texture resource dimension, and then the raw pixel bytes.
C11_WriteHDRHeaderShape ==
    WroteHDRImage =>
        /\ ddsStream.magic = "DDS "
        /\ ddsStream.Header.PixelFormat.FourCC = "DX10"
        /\ ddsStream.Header.MipMapCount = 1
        /\ ddsStream.hasDXT10
        /\ FormatMatchesModel(ddsStream.DXT10Header.DXGIFormat, ColorModelOf(ddsSrc.type))
        /\ ddsStream.DXT10Header.ArraySize = 1
        /\ ddsStream.DXT10Header.ResourceDimension = "Texture2D"
        /\ ddsStream.data = ddsSrc.Pix

\* The same for the plain planes only, where it holds.
C11_PlainPlaneHeaderShape ==
    (WroteHDRImage /\ ~ddsSrc.wrapper) =>
        /\ ddsStream.magic = "DDS "
        /\ ddsStream.Header.PixelFormat.FourCC = "DX10"
        /\ ddsStream.Header.MipMapCount = 1
        /\ ddsStream.hasDXT10
        /\ ddsStream.DXT10Header.DXGIFormat = WriteHDRFormat(ColorModelOf(ddsSrc.type))
        /\ ddsStream.DXT10Header.ArraySize = 1
        /\ ddsStream.DXT10Header.ResourceDimension = "Texture2D"
        /\ ddsStream.data = ddsSrc.Pix

\* A decoded array of two HDR images was written with ArraySize 2.
C11_ArrayWritten ==
    /\ WroteHDRImage
    /\ ddsSrc.wrapper
    /\ Len(ddsSrc.Images) = 2
    /\ ddsStream.DXT10Header.ArraySize = 2
    /\ ddsStream.data = ddsSrc.Pix

(***************************************************************************)
(* openexr: reading files of every compression, pixel type and shape.      *)
(***************************************************************************)

\* The header of the file at hand, as LoadOpenEXR returned it.
LoadedHeader == exrLoaded.Header

\* HdrImage was called on a file of a scheme other than None, ZIPS and ZIP.
ConvertedUnsupported ==
    /\ exrRet.op = "HdrImage"
    /\ LoadedHeader.Compression \notin {"CompressionNone", "CompressionZIPS", "CompressionZIP"}

SomeBlockMarked ==
    \E i \in DOMAIN exrLoaded.ScanLines : exrLoaded.ScanLines[i].Compressed

C12_PizFileConverted ==
    /\ ConvertedUnsupported
    /\ LoadedHeader.Compression = "CompressionPIZ"
    /\ exrRet.err = "" /\ ~exrRet.panic
    /\ exrRet.img # NoExrPlane

\* 1.0 in the native type of a plane, as its little-endian bytes: the
\* uint32 0xFFFFFFFF, the half 0x3C00 and the float32 0x3F800000.
NativeOne(pixelFmt) ==
    CASE pixelFmt = "TypeUInt"  -> <<255, 255, 255, 255>>
      [] pixelFmt = "TypeHalf"  -> <<0, 60>>
      [] pixelFmt = "TypeFloat" -> <<0, 0, 128, 63>>

\* The bytes of a[from+1 .. from+n].
BytesAt(a, from, n) == [k \in 1..n |-> a[from + k]]

\* Value c (0 = R .. 3 = A) of pixel (x, y) of the plane HdrImage returned.
ReturnedValue(x, y, c) ==
    LET size == PixelTypeSize(LoadedHeader.Channels[1].PixelFmt)
    IN  BytesAt(exrRet.img.Pix, exrRet.img.Stride * y + 4 * size * x + size * c, size)

\* The value of channel j (from 0, in file order) at (x, y) in the rows of
\* the file at hand, whose blocks hold their rows as they are.
StoredValue(x, y, j) ==
    LET size  == PixelTypeSize(LoadedHeader.Channels[1].PixelFmt)
        depth == Len(LoadedHeader.Channels)
        width == Box2iWidth(LoadedHeader.DataWindow)
        i     == CHOOSE i \in DOMAIN exrFile.Blocks :
                    /\ exrFile.Blocks[i].YCoord <= y
                    /\ \A k \in DOMAIN exrFile.Blocks :
                          exrFile.Blocks[k].YCoord <= y => exrFile.Blocks[k].YCoord <= exrFile.Blocks[i].YCoord
        line  == y - exrFile.Blocks[i].YCoord
    IN  BytesAt(exrFile.Blocks[i].Data.bytes, ((line * depth + j) * width + x) * size, size)

\* HdrImage returned a plane for a file of three channels whose blocks hold
\* their rows as they are.
ThreeChannelsConverted ==
    /\ exrRet.op = "HdrImage"
    /\ exrImg = NoExrPlane
    /\ Len(LoadedHeader.Channels) = 3
    /\ exrRet.err = "" /\ ~exrRet.panic
    /\ \A i \in DOMAIN exrFile.Blocks :
          /\ ~exrFile.Blocks[i].Data.zlib
          /\ ~exrLoaded.ScanLines[i].Compressed
          /\ exrFile.Blocks[i].Size =
                Min2(CompressionLineCount(LoadedHeader.Compression),
                     Box2iHeight(LoadedHeader.DataWindow) - exrFile.Blocks[i].YCoord)
                  * Box2iWidth(LoadedHeader.DataWindow) * SumSizes(LoadedHeader.Channels, 3)

\* R, G and B of every pixel returned are the values of the channels R, G
\* and B (2, 1 and 0 in file order).
ColorsFromChannels ==
    \A x \in 0..(Dx(exrRet.img.Rect) - 1), y \in 0..(Dy(exrRet.img.Rect) - 1), c \in 0..2 :
        ReturnedValue(x, y, c) = StoredValue(x, y, 2 - c)

\* C13: for a file with exactly three channels (B, G, R) of any supported
\* pixel type, HdrImage returns a plane in which the alpha of every pixel is
\* 1.0 in the native type (0xFFFFFFFF for uint32) and R, G, B are taken from
\* the channels R, G, B.
C13_SynthesizedAlpha ==
    ThreeChannelsConverted =>
        /\ ColorsFromChannels
        /\ \A x \in 0..(Dx(exrRet.img.Rect) - 1), y \in 0..(Dy(exrRet.img.Rect) - 1) :
              ReturnedValue(x, y, 3) = NativeOne(LoadedHeader.Channels[1].PixelFmt)

\* The same for the uint32 and float16 files, with the colours of every file.
C13_SynthesizedAlphaUnlessFloat ==
    ThreeChannelsConverted =>
        /\ ColorsFromChannels
        /\ LoadedHeader.Channels[1].PixelFmt # "TypeFloat" =>
              \A x \in 0..(Dx(exrRet.img.Rect) - 1), y \in 0..(Dy(exrRet.img.Rect) - 1) :
                  ReturnedValue(x, y, 3) = NativeOne(LoadedHeader.Channels[1].PixelFmt)

\* A float32 file of one row was converted, with alpha 0.0.
C13_FloatAlphaZero ==
    /\ ThreeChannelsConverted
    /\ LoadedHeader.Channels[1].PixelFmt = "TypeFloat"
    /\ Dy(exrRet.img.Rect) = 1
    /\ ReturnedValue(0, 0, 3) = <<0, 0, 0, 0>>

\* A float16 file was converted, with alpha 1.0.
C13_HalfAlphaOne ==
    /\ ThreeChannelsConverted
    /\ LoadedHeader.Channels[1].PixelFmt = "TypeHalf"
    /\ ReturnedValue(0, 0, 3) = <<0, 60>>

\* The number of levels Decode reads at most for each image.
MipMapsToRead(info, readMipMaps) ==
    IF readMipMaps \/ info.NumImages > 1 THEN info.NumMipMaps ELSE 1

\* Level k (from 0) of an image is the base halved k times, and not empty.
LevelShape(info, mipMaps, k) ==
    /\ mipMaps[k + 1].Width = info.Header.Width \div Pow2(k)
    /\ mipMaps[k + 1].Height = info.Header.Height \div Pow2(k)
    /\ mipMaps[k + 1].Width # 0
    /\ mipMaps[k + 1].Height # 0

\* C14: whenever Decode returns without error the DDS has Info.NumImages >= 1
\* images, every image has at least 1 and at most mipMapsToRead levels, and
\* level k has the dimensions (floor(W/2^k), floor(H/2^k)), both nonzero;
\* whenever Decode returns an error it returns a nil DDS.
C14_DecodeResult ==
    ddsRet.op = "Decode" =>
        IF ddsRet.err = ""
        THEN /\ ddsImg.wrapper
             /\ ddsImg.Info.NumImages >= 1
             /\ Len(ddsImg.Images) = ddsImg.Info.NumImages
             /\ \A i \in DOMAIN ddsImg.Images :
                   LET mipMaps == ddsImg.Images[i].MipMaps
                   IN  /\ Len(mipMaps) >= 1
                       /\ Len(mipMaps) <= MipMapsToRead(ddsImg.Info, ddsRet.readMipMaps)
                       /\ \A k \in 0..(Len(mipMaps) - 1) : LevelShape(ddsImg.Info, mipMaps, k)
        ELSE ddsImg = ZeroImage

\* Decode with readMipMaps read a 2 x 2 file that declares three levels and
\* returned its two levels that are not empty.
C14_Witness ==
    /\ ddsRet.op = "Decode" /\ ddsRet.err = "" /\ ddsRet.readMipMaps
    /\ ddsImg.Info.NumMipMaps = 3
    /\ ddsImg.Info.Header.Width = 2
    /\ Len(ddsImg.Images[1].MipMaps) = 2
    /\ ddsImg.Images[1].MipMaps[2].Width = 1

\* Decode failed on a file of two images after the first image was read.
C14_FailedAfterFirstImage ==
    /\ ddsRet.op = "Decode" /\ ddsRet.err = "unexpected EOF"
    /\ DecodeInfo(ddsStream).info.NumImages = 2
    /\ DecodeMipMaps(DecodeInfo(ddsStream).info, ddsStream.data, 2, 2, 0, 1, <<>>).err = ""
    /\ ddsImg = ZeroImage

\* The step is a call of Set.
SetStep == planeCalls'.Set = planeCalls.Set + 1

\* The plane Set is called on in a step, and where its pixel starts in the
\* buffer.
SetCallee == planes[planeRet'.k]

SetPixelStart ==
    SetCallee.Pix.base + (planeRet'.y - SetCallee.Rect.Min.Y) * SetCallee.Stride
                       + (planeRet'.x - SetCallee.Rect.Min.X) * PixelBytes

C15_WitnessOutside ==
    /\ planeRet.op = "Set"
    /\ ~In(planeRet.x, planeRet.y, Callee.Rect)
    /\ ~Empty(Callee.Rect)
    /\ ~lastSet.wrote
    /\ \A j \in DOMAIN rootPix : rootPix[j] = 0

\* C16: after WriteHDR returns, with or without an error, the input image,
\* a decoded *DDS included, has the header fields (MipMapCount among them)
\* and the pixel bytes and bounds it had before the call.
C16_EncodeKeepsInput ==
    ddsRet.op = "WriteHDR" => ddsImg = ddsSrc

\* What WriteHDR leaves of its input: a plane as it was, a *DDS as it was but
\* for MipMapCount, which is 1.
C16_EncodeKeepsInputButMipMapCount ==
    ddsRet.op = "WriteHDR" =>
        IF ddsSrc.wrapper
        THEN ddsImg = [ddsSrc EXCEPT !.Info.Header.MipMapCount = 1]
        ELSE ddsImg = ddsSrc

\* WriteHDR was handed a *DDS decoded from a file that declares two levels.
C16_MipMapCountOverwritten ==
    /\ ddsRet.op = "WriteHDR" /\ ddsRet.err = ""
    /\ ddsSrc.wrapper
    /\ ddsSrc.Info.Header.MipMapCount = 2
    /\ ddsImg.Info.Header.MipMapCount = 1
    /\ Len(ddsImg.Images[1].MipMaps) = 2

\* LoadOpenEXR returned a file.
Loaded == exrRet.op = "LoadOpenEXR" /\ exrRet.err = ""

\* The bytes a block of the file loaded holds when it is not compressed:
\* its rows times the width of the data window times the bytes of a pixel.
FullSize(scanline) ==
    scanline.LineCount * Box2iWidth(LoadedHeader.DataWindow)
        * SumSizes(LoadedHeader.Channels, Len(LoadedHeader.Channels))

\* C17: after LoadOpenEXR, for every data window, the non-square ones
\* included, the Compressed flag of each scanline block is true iff its
\* stored Size is smaller than LineCount * width * (the sum over the channels
\* of the bytes per sample), width being XMax - XMin + 1.
C17_CompressedFlagRule ==
    Loaded =>
        \A i \in DOMAIN exrLoaded.ScanLines :
            exrLoaded.ScanLines[i].Compressed
                <=> exrLoaded.ScanLines[i].Size < FullSize(exrLoaded.ScanLines[i])

\* The rule for the data windows that are as wide as they are high.
C17_RuleForSquareWindows ==
    (Loaded /\ Box2iWidth(LoadedHeader.DataWindow) = Box2iHeight(LoadedHeader.DataWindow))
        => \A i \in DOMAIN exrLoaded.ScanLines :
              exrLoaded.ScanLines[i].Compressed
                  <=> exrLoaded.ScanLines[i].Size < FullSize(exrLoaded.ScanLines[i])

\* A file of 1 x 2 pixels without compression, its two blocks stored in
\* full, was loaded with its first block marked compressed.
C17_FullBlockMarked ==
    /\ Loaded
    /\ exrImg = NoExrPlane
    /\ LoadedHeader.Compression = "CompressionNone"
    /\ Box2iWidth(LoadedHeader.DataWindow) = 1
    /\ Box2iHeight(LoadedHeader.DataWindow) = 2
    /\ exrLoaded.ScanLines[1].Size = FullSize(exrLoaded.ScanLines[1])
    /\ exrLoaded.ScanLines[1].Compressed

\* The rows of the first n blocks loaded.
RECURSIVE SumLineCounts(_, _)
SumLineCounts(scanlines, n) ==
    IF n = 0 THEN 0 ELSE SumLineCounts(scanlines, n - 1) + scanlines[n].LineCount

\* C18: for a header with a known compression scheme and a data window of
\* height h >= 1 the offset table has ceil(h / LineCount()) entries,
\* LoadOpenEXR reads that many blocks, block i (from 0) gets the LineCount
\* min(h - i * LineCount(), LineCount()) >= 1, and the LineCounts sum to h.
C18_ScanlineIndexing ==
    Loaded =>
        LET h        == Box2iHeight(LoadedHeader.DataWindow)
            perBlock == CompressionLineCount(LoadedHeader.Compression)
            count    == CeilDiv(h, perBlock)
        IN  /\ LoadedHeader.OffsetTableLen = count
            /\ Len(exrLoaded.ScanLines) = count
            /\ \A i \in 0..(count - 1) :
                  /\ exrLoaded.ScanLines[i + 1].LineCount = Min2(h - i * perBlock, perBlock)
                  /\ exrLoaded.ScanLines[i + 1].LineCount >= 1
            /\ SumLineCounts(exrLoaded.ScanLines, count) = h

\* A ZIP file of 17 rows was loaded: a block of 16 rows and one of 1, after
\* which the height counter has wrapped around.
C18_Witness ==
    /\ Loaded
    /\ LoadedHeader.Compression = "CompressionZIP"
    /\ Box2iHeight(LoadedHeader.DataWindow) = 17
    /\ Len(exrLoaded.ScanLines) = 2
    /\ exrLoaded.ScanLines[1].LineCount = 16
    /\ exrLoaded.ScanLines[2].LineCount = 1
    /\ HeightLeft(17, 16, 2) < 0

\* The blocks openEXRFromHDRImage builds for the plane at hand.
BuiltBlocks == openEXRFromHDRImage(exrImg).ScanLines

\* A block built starts at a multiple of 16, has the rows that are left of
\* the plane from there, 16 at most, and holds exactly those rows.
BlockAsClaimed(s) ==
    LET lineCount == Min2(ZipLineCount, Dy(exrImg.Rect) - s.YCoord)
    IN  /\ s.YCoord % ZipLineCount = 0
        /\ s.LineCount = lineCount
        /\ s.Size = lineCount * Dx(exrImg.Rect) * 4 * TypeFloatSize
        /\ s.Data.len = lineCount * Dx(exrImg.Rect) * 4 * TypeFloatSize

\* C19: every scanline block the writer builds for an image of height h
\* starts at a YCoord that is a multiple of 16, covers LineCount =
\* min(16, h - YCoord) rows, and its uncompressed payload is exactly
\* LineCount * width * 4 * sampleSize bytes: the LineCount and raw size the
\* reader derives for that block.
C19_WriterBlockGrouping ==
    /\ exrRet.op = "WriteHDR" =>
          \A i \in DOMAIN BuiltBlocks : BlockAsClaimed(BuiltBlocks[i])
    /\ (Loaded /\ exrImg # NoExrPlane) =>
          \A i \in DOMAIN BuiltBlocks :
              BuiltBlocks[i].LineCount = exrLoaded.ScanLines[i].LineCount

\* The same for the planes whose height is a multiple of 16.
C19_GroupingOfFullBlocks ==
    Dy(exrImg.Rect) % ZipLineCount = 0 => C19_WriterBlockGrouping

\* What the writer builds: every block has 16 rows and the bytes of 16 rows.
C19_EveryBlockSixteenRows ==
    exrRet.op = "WriteHDR" =>
        \A i \in DOMAIN BuiltBlocks :
            /\ BuiltBlocks[i].YCoord = (i - 1) * ZipLineCount
            /\ BuiltBlocks[i].LineCount = ZipLineCount
            /\ BuiltBlocks[i].Size = ZipLineCount * Dx(exrImg.Rect) * 4 * TypeFloatSize
            /\ BuiltBlocks[i].Data.len = BuiltBlocks[i].Size

\* A plane of 17 rows was written: its second block holds one row of the
\* plane and is as long as 16.
C19_LastBlockPadded ==
    /\ exrRet.op = "WriteHDR"
    /\ Dy(exrImg.Rect) = 17 /\ Dx(exrImg.Rect) = 1
    /\ Len(BuiltBlocks) = 2
    /\ BuiltBlocks[2].YCoord = 16
    /\ BuiltBlocks[2].LineCount = 16
    /\ BuiltBlocks[2].Data.len = 256

\* The bytes the stream holds before the Y field of block i (from 1): all
\* before the offset table, the table, and for each block before i its Y
\* field, its length field and its data.
RECURSIVE BlockPosition(_, _)
BlockPosition(file, i) ==
    IF i = 1 THEN TablePosition(file.Attributes) + 8 * file.OffsetTableLen
    ELSE BlockPosition(file, i - 1) + 4 + 4 + file.Blocks[i - 1].Data.len

\* C20: in the stream dump writes, entry 0 of the offset table is the
\* position right after the table, every entry i is the position at which
\* the Y field of block i is written, and entry i+1 = entry i + 8 + the Size
\* written for block i, which is the number of bytes written as its data;
\* for every mix of blocks that shrank under compression or did not.
C20_OffsetTable ==
    exrRet.op = "WriteHDR" =>
        /\ Len(exrFile.OffsetTable) = Len(exrFile.Blocks)
        /\ exrFile.OffsetTable[1] = TablePosition(exrFile.Attributes) + 8 * Len(exrFile.OffsetTable)
        /\ \A i \in DOMAIN exrFile.Blocks :
              /\ exrFile.OffsetTable[i] = BlockPosition(exrFile, i)
              /\ exrFile.Blocks[i].Size = exrFile.Blocks[i].Data.len
              /\ i < Len(exrFile.Blocks) =>
                    exrFile.OffsetTable[i + 1] = exrFile.OffsetTable[i] + 8 + exrFile.Blocks[i].Size

\* A plane of 17 rows was written whose first block shrank and whose second
\* did not: the table is at 331, the first block at 347.
C20_Witness ==
    /\ exrRet.op = "WriteHDR"
    /\ Len(exrFile.Blocks) = 2
    /\ exrFile.Blocks[1].Data.zlib
    /\ exrFile.Blocks[1].Size < 16 * Dx(exrImg.Rect) * 16
    /\ ~exrFile.Blocks[2].Data.zlib
    /\ exrFile.OffsetTable[1] = 347
    /\ exrFile.OffsetTable[2] = 355 + exrFile.Blocks[1].Size

\* At was called on a file that has a channel of a name other than R, G, B
\* and A, and whose block at hand could be read.
AtWithUnknownChannel ==
    /\ exrRet.op = "At"
    /\ \E i \in DOMAIN LoadedHeader.Channels : PixelChannel(LoadedHeader.Channels[i].Name) = "nil"
    /\ ScanLineDecompress(exrLoaded.ScanLines[AtIndex(exrLoaded.ScanLines, exrRet.y)],
                          LoadedHeader.Compression).err = ""

\* The value of the channel of the given name at the place At was called
\* for, if the file has that channel and the block holds it in full; else
\* what the pixel starts with.
ChannelValueAt(name) ==
    LET s     == exrLoaded.ScanLines[AtIndex(exrLoaded.ScanLines, exrRet.y)]
        typ   == LoadedHeader.Channels[1].PixelFmt
        size  == PixelTypeSize(typ)
        has   == {i \in DOMAIN LoadedHeader.Channels : LoadedHeader.Channels[i].Name = name}
        i     == CHOOSE i \in has : TRUE
        off   == offset(s, exrRet.x, exrRet.y, i - 1, Len(LoadedHeader.Channels), typ,
                        LoadedHeader.DataWindow)
    IN  IF has # {} /\ off + size <= s.Data.len
        THEN [k \in 1..size |-> DataByte(s.Data, off + k - 1)]
        ELSE AtStartPixel(typ)[name]

\* C21: Channel(name) returns nil for every name other than R, G, B, A, and
\* At(x, y) on a file with such a channel, for each pixel type, ignores that
\* channel and returns a pixel, without a panic.
C21_UnknownChannelSkipped ==
    /\ \A ch \in {"R", "G", "B", "A", "Z", "Y", ""} :
          (PixelChannel(ch) = "nil") <=> (ch \notin {"R", "G", "B", "A"})
    /\ AtWithUnknownChannel =>
          /\ ~exrRet.panic
          /\ \A name \in {"R", "G", "B", "A"} : exrRet.pixel[name] = ChannelValueAt(name)

\* The same for the float16 files.
C21_SkippedInHalfFiles ==
    (AtWithUnknownChannel /\ LoadedHeader.Channels[1].PixelFmt = "TypeHalf") =>
        /\ ~exrRet.panic
        /\ \A name \in {"R", "G", "B", "A"} : exrRet.pixel[name] = ChannelValueAt(name)

\* At panicked on the channel Z of a float32 file of one pixel stored as it
\* is.
C21_PanicOnUnknownChannel ==
    /\ AtWithUnknownChannel
    /\ LoadedHeader.Channels[1].PixelFmt = "TypeFloat"
    /\ LoadedHeader.Compression = "CompressionNone"
    /\ Box2iWidth(LoadedHeader.DataWindow) = 1 /\ Box2iHeight(LoadedHeader.DataWindow) = 1
    /\ exrLoaded.ScanLines[1].Data.len = 16
    /\ exrRet.panic

\* C22: for every plane reached from a constructor by SubImage, Set and
\* SetGray calls, Stride >= BytesPerPixel * Width, and for every (x, y) in
\* Bounds the bytes PixOffset(x, y) .. PixOffset(x, y) + BytesPerPixel - 1 lie
\* inside Pix and, for a view, are the bytes of the root buffer that the
\* PixOffset(x, y) of the plane it was taken from denotes.
C22_PlaneAddressing ==
    \A k \in DOMAIN planes :
        LET p == planes[k]
        IN  /\ p.Stride >= PixelBytes * Dx(p.Rect)
            /\ \A j \in p.Pix.base..(p.Pix.base + p.Pix.len - 1) : j \in DOMAIN rootPix
            /\ \A x \in Coords, y \in Coords :
                  In(x, y, p.Rect) =>
                      /\ SliceInRange(p, PixOffset(p, x, y), PixelBytes)
                      /\ In(x, y, planes[1].Rect)
                      /\ p.Pix.base + PixOffset(p, x, y)
                            = planes[1].Pix.base + PixOffset(planes[1], x, y)

\* A view of one pixel taken from a view of one row of a 2 x 2 plane, after
\* a Set and a SetGray: it starts at the last pixel of the buffer.
C22_Witness ==
    /\ planeCalls.SubImage = 2 /\ planeCalls.Set = 1 /\ planeCalls.SetGray = 1
    /\ Len(planes) = 2
    /\ planes[1].Rect = Rect(1, 1, 3, 3)
    /\ planes[2].Rect = Rect(2, 2, 3, 3)
    /\ planes[2].Pix.base = planes[1].Stride + PixelBytes
    /\ planes[2].Pix.len = PixelBytes
    /\ lastSet.wrote

\* DecodeInfo returned without an error.
InfoDecoded == ddsRet.op = "DecodeInfo" /\ ddsRet.err = ""

\* C23: whenever DecodeInfo returns without an error, for every combination
\* of pixel-format flags, a header with none of RGB, YUV, Luminance and
\* FourCC included, the Info has a ColorModel and a Decompress function that
\* are not nil, NumImages >= 1 and NumMipMaps >= 1.
C23_InfoComplete ==
    InfoDecoded =>
        /\ ddsRet.info.ColorModel # "nil"
        /\ ddsRet.info.Decompress # "nil"
        /\ ddsRet.info.NumImages >= 1
        /\ ddsRet.info.NumMipMaps >= 1

\* The same for the headers that have one of the four flags; the counts for
\* every header.
C23_InfoCompleteWithFormatFlag ==
    InfoDecoded =>
        /\ ddsRet.info.NumImages >= 1
        /\ ddsRet.info.NumMipMaps >= 1
        /\ PixelFormatOfStream.Flags \cap {"RGB", "YUV", "Luminance", "FourCC"} # {} =>
              /\ ddsRet.info.ColorModel # "nil"
              /\ ddsRet.info.Decompress # "nil"

\* DecodeInfo accepted a header whose only pixel-format flag is AlphaPixels
\* and returned an Info without ColorModel and Decompress.
C23_AcceptedWithoutFormat ==
    /\ InfoDecoded
    /\ PixelFormatOfStream.Flags = {"AlphaPixels"}
    /\ ddsRet.info.ColorModel = "nil"
    /\ ddsRet.info.Decompress = "nil"
    /\ ddsRet.info.NumImages = 1

\* Decode has returned for a stream that WriteHDR wrote for a plain plane of
\* one of the three HDR models.
DecodedWrittenHDR ==
    /\ ddsRet.op = "Decode"
    /\ ~ddsSrc.wrapper
    /\ ColorModelOf(ddsSrc.type) \in HDRModels

\* C24: for each of the three HDR colour models (float32, float16, uint32)
\* the DXGI format WriteHDR declares is one DecodeInfo classifies and Decode
\* can allocate: every stream WriteHDR wrote is decoded without an error
\* into an image of the colour model that was written.
C24_WriterReaderAgree ==
    DecodedWrittenHDR =>
        /\ ClassifyDXGI(WriteHDRFormat(ColorModelOf(ddsSrc.type))).err = ""
        /\ DecodedType(ColorModelOf(ddsSrc.type)) # "invalid"
        /\ ddsRet.err = ""
        /\ ColorModelOf(ddsImg.type) = ColorModelOf(ddsSrc.type)

\* The same for the two floating-point models and planes with a pixel.
C24_FloatWriterReaderAgree ==
    (/\ DecodedWrittenHDR
     /\ ddsSrc.type # "NRGBA128UImage"
     /\ ddsSrc.W > 0 /\ ddsSrc.H > 0) =>
        /\ ClassifyDXGI(WriteHDRFormat(ColorModelOf(ddsSrc.type))).err = ""
        /\ DecodedType(ColorModelOf(ddsSrc.type)) # "invalid"
        /\ ddsRet.err = ""
        /\ ColorModelOf(ddsImg.type) = ColorModelOf(ddsSrc.type)
        /\ ddsImg.Pix = ddsSrc.Pix

\* Decode rejected the stream WriteHDR wrote for an NRGBA128UImage of 2 x 1
\* pixels.
C24_UintStreamRejected ==
    /\ DecodedWrittenHDR
    /\ ddsSrc.type = "NRGBA128UImage"
    /\ ddsSrc.W = 2 /\ ddsSrc.H = 1
    /\ ddsStream.DXT10Header.DXGIFormat = "R32G32B32A32UInt"
    /\ ddsRet.err = "unsupported DXGI format"

\* Decode returned the NRGBA64FImage of 2 x 1 pixels that WriteHDR wrote.
C24_HalfStreamDecoded ==
    /\ DecodedWrittenHDR
    /\ ddsSrc.type = "NRGBA64FImage"
    /\ ddsSrc.W = 2 /\ ddsSrc.H = 1
    /\ ddsRet.err = ""
    /\ ddsImg.type = "NRGBA64FImage"
    /\ ddsImg.Pix = ddsSrc.Pix

(***************************************************************************)
(* types.UndoRedoStack: Push, DelayedPush, Undo, Redo, Clear, and the      *)
(* callbacks of its timers.                                                *)
(***************************************************************************)

\* The most Push calls, and the timers made.
MaxPushes == 3
MaxTimers == 2

\* The actions of the pushes the editor makes at once, and of its delayed
\* pushes.
PushActions == {"Cut", "Save File"}
DelayedActions == {"Draw"}

\* The indexes handed to Undo and Redo.
UndoIndexes == (0 - 1)..MaxPushes

\* An UndoRedoState: its Action, and for the snapshot it holds the number of
\* the Push call that took it.
UndoRedoState(action, serial) == [Action |-> action, serial |-> serial]

\* The nil *UndoRedoState.
NoState == UndoRedoState("", 0)

\* slices.Reverse
Reverse(s) == [k \in 1..Len(s) |-> s[Len(s) + 1 - k]]

\* s[from:] of Go, from counted from 0.
SliceFrom(s, from) == SubSeq(s, from + 1, Len(s))

\* s[:to] of Go.
SliceTo(s, to) == SubSeq(s, 1, to)

\* What Undo and Redo return and leave in the two stacks.
UndoResult(err, state, undo, redo) ==
    [err |-> err, state |-> state, UndoStack |-> undo, RedoStack |-> redo]

\* An Undo that moves the entries to RedoStack in the order they have.
UndoKeepsOrder(undo, redo, index) ==
    IF ~(index >= 0 /\ index < Len(undo))
    THEN UndoResult("Undo: invalid index", NoState, undo, redo)
    ELSE UndoResult("", undo[index + 1], SliceTo(undo, index + 1),
                    redo \o SliceFrom(undo, index + 1))

\* An Undo that returns the entry after the one at index.
UndoReturnsNext(undo, redo, index) ==
    IF ~(index >= 0 /\ index < Len(undo))
    THEN UndoResult("Undo: invalid index", NoState, undo, redo)
    ELSE UndoResult("", undo[IF index + 2 <= Len(undo) THEN index + 2 ELSE index + 1],
                    SliceTo(undo, index + 1),
                    redo \o Reverse(SliceFrom(undo, index + 1)))

\* UndoRedoStack.Undo(index) on the stacks undo and redo.
Undo(undo, redo, index) ==
    IF ~(index >= 0 /\ index < Len(undo))
    THEN UndoResult("Undo: invalid index", NoState, undo, redo)
    ELSE UndoResult("", undo[index + 1], SliceTo(undo, index + 1),
                    redo \o Reverse(SliceFrom(undo, index + 1)))

\* A Redo that empties RedoStack when the index is out of range.
RedoClearsOnError(undo, redo, index) ==
    IF ~(index >= 0 /\ index < Len(redo))
    THEN UndoResult("Undo: invalid index", NoState, undo, <<>>)
    ELSE UndoResult("", redo[index + 1], undo \o Reverse(SliceFrom(redo, index)),
                    SliceTo(redo, index))

\* A Redo that leaves in RedoStack the entries it moved.
RedoKeepsTail(undo, redo, index) ==
    IF ~(index >= 0 /\ index < Len(redo))
    THEN UndoResult("Undo: invalid index", NoState, undo, redo)
    ELSE UndoResult("", redo[index + 1], undo \o Reverse(SliceFrom(redo, index)),
                    redo)

\* UndoRedoStack.Redo(index) on the stacks undo and redo; its error has the
\* text of Undo's.
Redo(undo, redo, index) ==
    IF ~(index >= 0 /\ index < Len(redo))
    THEN UndoResult("Undo: invalid index", NoState, undo, redo)
    ELSE UndoResult("", redo[index + 1], undo \o Reverse(SliceFrom(redo, index)),
                    SliceTo(redo, index))

\* The callback of a timer: state is "none" (not made), "pending" (armed),
\* "stopped" (Stop came before it fired), "running" (the callback is in
\* Push and has built its UndoRedoState), "loaded" (it has read
\* u.UndoStack for the append) or "done" (it has stored the appended
\* slice); entry is the UndoRedoState, local the slice it read, and
\* cancelled whether Stop was called on the timer before the callback
\* stored.
TimerRecord(state, action, entry, local, cancelled) ==
    [state |-> state, action |-> action, entry |-> entry, local |-> local,
     cancelled |-> cancelled]

NoTimer == TimerRecord("none", "", NoState, <<>>, FALSE)

\* The callbacks that are inside Push.
InPush == { t \in DOMAIN timers : timers[t].state \in {"running", "loaded"} }

\* The call before the one at hand, kept if it was an Undo.
PrevCall == IF undoRet.op = "Undo" THEN undoRet ELSE [op |-> "none"]

\* A call on the stack from the editor: its arguments, what it returned, the
\* stacks before it, and the callbacks that were inside Push during it.
UndoCall(op, index, err, state) ==
    [op |-> op, index |-> index, err |-> err, state |-> state,
     U |-> UndoStack, R |-> RedoStack, during |-> InPush]

\* The zero UndoRedoStack of run, with the two empty slices.
UndoInit ==
    /\ UndoStack = <<>>
    /\ RedoStack = <<>>
    /\ timer = 0
    /\ timers = [t \in 1..MaxTimers |-> NoTimer]
    /\ pushes = 0
    /\ cleared = 0
    /\ undoRet = [op |-> "none"]
    /\ undoPrev = [op |-> "none"]

UndoActive == undoRet.op # "idle"

\* timer.Stop() as DelayedPush and Clear call it: a pending timer never
\* fires; a callback that has started goes on.
Stop(t) ==
    [timers EXCEPT ![t] =
        [@ EXCEPT !.state = IF @ = "pending" THEN "stopped" ELSE @,
                  !.cancelled = timers[t].state # "done"]]

\* u.Push(action, ...) from the editor.
CallPush(action) ==
    /\ UndoActive
    /\ pushes < MaxPushes
    /\ LET state == UndoRedoState(action, pushes + 1)
       IN  /\ UndoStack' = Append(UndoStack, state)
           /\ undoRet' = UndoCall("Push", 0, "", state)
    /\ pushes' = pushes + 1
    /\ undoPrev' = PrevCall
    /\ UNCHANGED <<RedoStack, timer, timers, cleared>>

\* u.Undo(index), as handleUndo calls it.
CallUndo(index) ==
    /\ UndoActive
    /\ LET r == Undo(UndoStack, RedoStack, index)
       IN  /\ UndoStack' = r.UndoStack
           /\ RedoStack' = r.RedoStack
           /\ undoRet' = UndoCall("Undo", index, r.err, r.state)
    /\ undoPrev' = PrevCall
    /\ UNCHANGED <<timer, timers, pushes, cleared>>

\* u.Redo(index), as handleRedo calls it.
CallRedo(index) ==
    /\ UndoActive
    /\ LET r == Redo(UndoStack, RedoStack, index)
       IN  /\ UndoStack' = r.UndoStack
           /\ RedoStack' = r.RedoStack
           /\ undoRet' = UndoCall("Redo", index, r.err, r.state)
    /\ undoPrev' = PrevCall
    /\ UNCHANGED <<timer, timers, pushes, cleared>>

\* u.Clear()
CallClear ==
    /\ UndoActive
    /\ timers' = IF timer # 0 THEN Stop(timer) ELSE timers
    /\ timer' = 0
    /\ UndoStack' = <<>>
    /\ RedoStack' = <<>>
    /\ cleared' = pushes
    /\ UNCHANGED pushes
    /\ undoRet' = UndoCall("Clear", 0, "", NoState)
    /\ undoPrev' = PrevCall

\* u.DelayedPush(d, action, ...): stop the timer at hand, arm a new one.
CallDelayedPush(action) ==
    /\ UndoActive
    /\ \E t \in 1..MaxTimers :
          /\ timers[t].state = "none"
          /\ \A s \in 1..(t - 1) : timers[s].state # "none"
          /\ timers' = [(IF timer # 0 THEN Stop(timer) ELSE timers) EXCEPT
                            ![t] = TimerRecord("pending", action, NoState, <<>>, FALSE)]
          /\ timer' = t
    /\ undoRet' = UndoCall("DelayedPush", 0, "", NoState)
    /\ undoPrev' = PrevCall
    /\ UNCHANGED <<UndoStack, RedoStack, pushes, cleared>>

\* The duration is over: the runtime starts the callback in its own
\* goroutine, and the callback enters Push and builds the UndoRedoState.
TimerFire(t) ==
    /\ timers[t].state = "pending"
    /\ pushes < MaxPushes
    /\ timers' = [timers EXCEPT ![t].state = "running",
                                ![t].entry = UndoRedoState(timers[t].action, pushes + 1)]
    /\ pushes' = pushes + 1
    /\ UNCHANGED <<UndoStack, RedoStack, timer, cleared, undoRet, undoPrev>>

\* The callback's Push reads u.UndoStack for the append ...
CallbackLoad(t) ==
    /\ timers[t].state = "running"
    /\ timers' = [timers EXCEPT ![t].state = "loaded", ![t].local = UndoStack]
    /\ UNCHANGED <<UndoStack, RedoStack, timer, pushes, cleared, undoRet, undoPrev>>

\* ... and stores the appended slice in u.UndoStack.
CallbackStore(t) ==
    /\ timers[t].state = "loaded"
    /\ UndoStack' = Append(timers[t].local, timers[t].entry)
    /\ timers' = [timers EXCEPT ![t].state = "done"]
    /\ UNCHANGED <<RedoStack, timer, pushes, cleared, undoRet, undoPrev>>

\* The calls of the editor alone.
UndoNext ==
    \/ (\E action \in PushActions : CallPush(action)) /\ OthersUnchanged("undo")
    \/ (\E index \in UndoIndexes : CallUndo(index)) /\ OthersUnchanged("undo")
    \/ (\E index \in UndoIndexes : CallRedo(index)) /\ OthersUnchanged("undo")
    \/ CallClear /\ OthersUnchanged("undo")

InitUndo == UndoInit /\ OthersIdle("undo")

SpecUndo == InitUndo /\ [][UndoNext]_vars

\* The indexes handed to Undo and Redo while timers run.
TimerIndexes == {0, 1}

\* The calls of the editor and the timers' callbacks, in every order.
TimerNext ==
    \/ (CallPush("Cut")) /\ OthersUnchanged("undo")
    \/ (\E index \in TimerIndexes : CallUndo(index)) /\ OthersUnchanged("undo")
    \/ (\E index \in TimerIndexes : CallRedo(index)) /\ OthersUnchanged("undo")
    \/ CallClear /\ OthersUnchanged("undo")
    \/ (\E action \in DelayedActions : CallDelayedPush(action)) /\ OthersUnchanged("undo")
    \/ (\E t \in 1..MaxTimers : TimerFire(t)) /\ OthersUnchanged("undo")
    \/ (\E t \in 1..MaxTimers : CallbackLoad(t)) /\ OthersUnchanged("undo")
    \/ (\E t \in 1..MaxTimers : CallbackStore(t)) /\ OthersUnchanged("undo")

SpecTimer == InitUndo /\ [][TimerNext]_vars

(***************************************************************************)
(* UndoRedoStack: what Undo, Redo, Push and Clear do to the two stacks.    *)
(***************************************************************************)

\* Undo(i) with 0 <= i < len(UndoStack) was followed by Redo(len(R)), R
\* being the RedoStack before the Undo.
UndoThenRedo ==
    /\ undoPrev.op = "Undo"
    /\ undoPrev.err = ""
    /\ undoRet.op = "Redo"
    /\ undoRet.index = Len(undoPrev.R)

\* C25: for any UndoStack U, RedoStack R and index i with 0 <= i < len(U),
\* after Undo(i) followed by Redo(len(R)) the UndoStack and the RedoStack
\* are U and R again, the same entries in the same order.
C25_UndoRedoInverse ==
    UndoThenRedo => (UndoStack = undoPrev.U /\ RedoStack = undoPrev.R)

\* Undo(0) on a stack of three entries moved two of them, and Redo brought
\* them back.
C25_Witness ==
    /\ UndoThenRedo
    /\ undoPrev.index = 0
    /\ Len(undoPrev.U) = 3
    /\ Len(undoRet.U) = 1 /\ Len(undoRet.R) = 2
    /\ undoRet.err = ""
    /\ UndoStack = undoPrev.U

\* Undo(len(U) - 1) moved nothing, the Redo after it returned the error, and
\* the RedoStack of one entry is as it was.
C25_WitnessTop ==
    /\ UndoThenRedo
    /\ undoPrev.index = Len(undoPrev.U) - 1
    /\ Len(undoPrev.R) = 1
    /\ undoRet.err # ""
    /\ RedoStack = undoPrev.R

\* The last call was Undo or Redo with an index outside its stack.
IndexOutOfRange ==
    /\ undoRet.op \in {"Undo", "Redo"}
    /\ LET stack == IF undoRet.op = "Undo" THEN undoRet.U ELSE undoRet.R
       IN  undoRet.index < 0 \/ undoRet.index >= Len(stack)

\* C26: Undo(i) with i < 0 or i >= len(UndoStack), and Redo(i) with i < 0
\* or i >= len(RedoStack), return an error and no state and leave UndoStack
\* and RedoStack as they were.
C26_IndexErrors ==
    IndexOutOfRange =>
        /\ undoRet.err # ""
        /\ undoRet.state = NoState
        /\ UndoStack = undoRet.U
        /\ RedoStack = undoRet.R

\* Redo(len(RedoStack)) on a RedoStack of two entries returned the error.
C26_Witness ==
    /\ undoRet.op = "Redo"
    /\ undoRet.index = Len(undoRet.R)
    /\ Len(undoRet.R) = 2
    /\ undoRet.err = "Undo: invalid index"
    /\ Len(RedoStack) = 2

\* Undo(-1) on an UndoStack of two entries returned the error.
C26_WitnessNegative ==
    /\ undoRet.op = "Undo"
    /\ undoRet.index = 0 - 1
    /\ Len(undoRet.U) = 2
    /\ undoRet.err = "Undo: invalid index"
    /\ Len(UndoStack) = 2

\* The Push calls whose entries are in the stack.
SerialsOf(stack) == { stack[k].serial : k \in 1..Len(stack) }

\* C27: across any sequence of Push, Undo and Redo since the last Clear,
\* len(UndoStack) + len(RedoStack) is the number of Pushes and the entries
\* of the two stacks are those of the Pushes, each once; Push appends one
\* entry to the end of UndoStack and leaves RedoStack as it was; Undo and
\* Redo never empty an UndoStack that has an entry.
C27_HistoryConservation ==
    /\ Len(UndoStack) + Len(RedoStack) = pushes - cleared
    /\ SerialsOf(UndoStack) \cup SerialsOf(RedoStack) = (cleared + 1)..pushes
    /\ undoRet.op = "Push" =>
          /\ UndoStack = Append(undoRet.U, undoRet.state)
          /\ RedoStack = undoRet.R
    /\ (undoRet.op \in {"Undo", "Redo"} /\ undoRet.U # <<>>) => UndoStack # <<>>

\* A Push after an Undo: the entry is on top of the UndoStack, and the entry
\* that was undone is still in the RedoStack; three Pushes and no Clear.
C27_Witness ==
    /\ undoRet.op = "Push"
    /\ Len(undoRet.R) = 1
    /\ Len(RedoStack) = 1
    /\ Len(UndoStack) = 2
    /\ cleared = 0 /\ pushes = 3

\* Entries were pushed after a Clear that emptied a history.
C27_WitnessAfterClear ==
    /\ cleared = 2
    /\ pushes = 3
    /\ undoRet.op = "Redo" /\ undoRet.err # ""
    /\ Len(UndoStack) = 1

\* The last call was an Undo or a Redo that returned a state.
Restored == undoRet.op \in {"Undo", "Redo"} /\ undoRet.err = ""

\* C28: after every successful Undo(i) or Redo(i) the state returned, which
\* handleUndo and handleRedo hand to restoreState, is the last entry of
\* UndoStack; Undo(i) returns the former entry i and moves the entries
\* i+1.. to the end of RedoStack in reverse order; Redo(i) returns the
\* former RedoStack entry i and moves the RedoStack entries i.. onto
\* UndoStack in reverse order.
C28_RestoredIsTop ==
    Restored =>
        LET i == undoRet.index
            U == undoRet.U
            R == undoRet.R
        IN  /\ UndoStack # <<>>
            /\ undoRet.state = UndoStack[Len(UndoStack)]
            /\ undoRet.op = "Undo" =>
                  /\ undoRet.state = U[i + 1]
                  /\ Len(UndoStack) = i + 1
                  /\ \A k \in 1..(i + 1) : UndoStack[k] = U[k]
                  /\ Len(RedoStack) = Len(R) + Len(U) - (i + 1)
                  /\ \A k \in 1..Len(R) : RedoStack[k] = R[k]
                  /\ \A k \in 1..(Len(U) - (i + 1)) :
                        RedoStack[Len(R) + k] = U[Len(U) + 1 - k]
            /\ undoRet.op = "Redo" =>
                  /\ undoRet.state = R[i + 1]
                  /\ Len(RedoStack) = i
                  /\ \A k \in 1..i : RedoStack[k] = R[k]
                  /\ Len(UndoStack) = Len(U) + Len(R) - i
                  /\ \A k \in 1..Len(U) : UndoStack[k] = U[k]
                  /\ \A k \in 1..(Len(R) - i) :
                        UndoStack[Len(U) + k] = R[Len(R) + 1 - k]

\* Redo(0) on a RedoStack of two entries returned the entry that is now on
\* top of the three of UndoStack.
C28_Witness ==
    /\ Restored
    /\ undoRet.op = "Redo"
    /\ undoRet.index = 0
    /\ Len(undoRet.R) = 2
    /\ Len(UndoStack) = 3
    /\ undoRet.state = undoRet.R[1]

\* Undo(0) on an UndoStack of three entries returned the first one.
C28_WitnessUndo ==
    /\ Restored
    /\ undoRet.op = "Undo"
    /\ undoRet.index = 0
    /\ Len(undoRet.U) = 3
    /\ Len(RedoStack) = 2
    /\ undoRet.state = undoRet.U[1]

(***************************************************************************)
(* UndoRedoStack: the delayed pushes and the calls of the editor.          *)
(***************************************************************************)

\* The timers that are armed and have not fired.
Pending == { t \in DOMAIN timers : timers[t].state = "pending" }

\* The callbacks that appended after Stop was called on their timer.
AppendedAfterStop ==
    { t \in DOMAIN timers : timers[t].state = "done" /\ timers[t].cancelled }

\* C29: at any time at most one delayed push is pending; a delayed push that
\* a later DelayedPush superseded or Clear cancelled never appends to
\* UndoStack afterwards, however the timer callback and the calling thread
\* interleave; and no Push, Undo, Redo or Clear on the stack runs while the
\* callback's Push is running.
C29_DelayedPushCancellation ==
    /\ Cardinality(Pending) <= 1
    /\ AppendedAfterStop = {}
    /\ undoRet.op \in {"Push", "Undo", "Redo", "Clear"} => undoRet.during = {}

\* The part that holds: at most one timer is armed.
C29_AtMostOnePending == Cardinality(Pending) <= 1

\* A timer that Stop reached before it fired never runs its callback.
C29_StoppedStaysStopped ==
    \A t \in DOMAIN timers :
        timers[t].state = "stopped" => timers[t].entry = NoState

\* Clear ran while the callback was in Push, and the callback then appended
\* its entry to the stack Clear had emptied.
C29_AppendedAfterClear ==
    /\ undoRet.op = "Clear"
    /\ undoRet.during = {1}
    /\ timer = 0
    /\ timers[1].state = "done"
    /\ timers[1].cancelled
    /\ UndoStack = <<timers[1].entry>>

\* A second DelayedPush came while the callback of the first was in Push:
\* both entries are in UndoStack.
C29_SupersededAppended ==
    /\ timers[1].state = "done"
    /\ timers[1].cancelled
    /\ timers[2].state = "done"
    /\ UndoStack = <<timers[1].entry, timers[2].entry>>

\* A Push of the editor between the callback's read of u.UndoStack and its
\* store: the stack holds the callback's entry and not the editor's.
C29_PushOverwritten ==
    /\ undoRet.op = "Push"
    /\ undoRet.during = {1}
    /\ timers[1].state = "done"
    /\ pushes = 2
    /\ cleared = 0
    /\ UndoStack = <<timers[1].entry>>
    /\ RedoStack = <<>>

(***************************************************************************)
(* The background tasks of run: the TaskMap, the BackgroundStatus objects  *)
(* and the status bar.                                                     *)
(***************************************************************************)

\* The most bulk conversions started.
MaxTasks == 3

\* The names of the two bulk conversions.
TaskNames == {"Bulk DDS->EXR Conversion", "Bulk EXR->DDS Conversion"}

\* A BackgroundStatus, and where the goroutine that holds its pointer is:
\* "start" (bulkConvertFiles before its loop), "converting", "finished"
\* (OnComplete returned, its goroutine sleeps), "ended" (the sleep is over)
\* or "returned" (bulkConvertFiles returned after OnCancel).
BackgroundStatus(name, status, pc) == [Name |-> name, Status |-> status, pc |-> pc]

\* A step of the editor on the map: the TaskID it used and the keys the map
\* had before.
TaskStep(op, id) == [op |-> op, id |-> id, keys |-> DOMAIN backgroundTasks]

\* lastTask of drawStatusBar when the map is empty: TaskID(0xFFFFFFFF), a key
\* that len(backgroundTasks) never reaches; written as -1.
NoTask == 0 - 1

\* make(types.TaskMap)
TaskInit ==
    /\ backgroundTasks = <<>>
    /\ statuses = <<>>
    /\ taskRet = [op |-> "none"]

TaskActive == taskRet.op # "idle"

\* The map m with the key k deleted.
Delete(m, k) == [j \in DOMAIN m \ {k} |-> m[j]]

\* m[k] = v
Store(m, k, v) == [j \in DOMAIN m \cup {k} |-> IF j = k THEN v ELSE m[j]]

\* taskIdx := len(backgroundTasks)
TaskIdx == Cardinality(DOMAIN backgroundTasks)

\* case MenuResponseBulkConvertToDDS / ToEXR: a new status stored under
\* taskIdx, and bulkConvertFiles started with the pointer.
StartTask(name) ==
    /\ TaskActive
    /\ Len(statuses) < MaxTasks
    /\ statuses' = Append(statuses, BackgroundStatus(name, "TaskIdle", "start"))
    /\ backgroundTasks' = Store(backgroundTasks, TaskIdx, Len(statuses) + 1)
    /\ taskRet' = TaskStep("Start", TaskIdx)

\* bulkConvertFiles gives up before the loop: task.OnCancel()
OnCancel(o) ==
    /\ statuses[o].pc = "start"
    /\ statuses' = [statuses EXCEPT ![o].Status = "TaskCancelled", ![o].pc = "returned"]
    /\ UNCHANGED <<backgroundTasks, taskRet>>

\* task.OnProgress(idx+1, len(matches), err) in the loop
OnProgress(o) ==
    /\ statuses[o].pc \in {"start", "converting"}
    /\ statuses' = [statuses EXCEPT ![o].Status = "TaskRunning", ![o].pc = "converting"]
    /\ UNCHANGED <<backgroundTasks, taskRet>>

\* task.OnComplete(success, failed, len(matches)) after the loop
OnComplete(o) ==
    /\ statuses[o].pc \in {"start", "converting"}
    /\ statuses' = [statuses EXCEPT ![o].Status = "TaskFinished", ![o].pc = "finished"]
    /\ UNCHANGED <<backgroundTasks, taskRet>>

\* The goroutine of OnComplete after its 8 seconds: b.Status = TaskCancelled
OnCompleteExpire(o) ==
    /\ statuses[o].pc = "finished"
    /\ statuses' = [statuses EXCEPT ![o].Status = "TaskCancelled", ![o].pc = "ended"]
    /\ UNCHANGED <<backgroundTasks, taskRet>>

\* The keys the loop of drawStatusBar can end on: the range over the map
\* visits the keys in any order and stops at the first running task.
LastTasks ==
    LET running == { k \in DOMAIN backgroundTasks :
                        statuses[backgroundTasks[k]].Status = "TaskRunning" }
    IN  IF DOMAIN backgroundTasks = {} THEN {NoTask}
        ELSE IF running # {} THEN running
        ELSE DOMAIN backgroundTasks

\* drawStatusBar(..., backgroundTasks, ...): shows one task, and deletes it
\* if it is cancelled.
drawStatusBar ==
    /\ TaskActive
    /\ \E lastTask \in LastTasks :
          /\ backgroundTasks' =
                IF /\ lastTask \in DOMAIN backgroundTasks
                   /\ statuses[backgroundTasks[lastTask]].Status = "TaskCancelled"
                THEN Delete(backgroundTasks, lastTask)
                ELSE backgroundTasks
          /\ taskRet' = TaskStep("drawStatusBar", lastTask)
    /\ UNCHANGED statuses

TaskNext ==
    \/ (\E name \in TaskNames : StartTask(name)) /\ OthersUnchanged("task")
    \/ (\E o \in DOMAIN statuses : OnCancel(o)) /\ OthersUnchanged("task")
    \/ (\E o \in DOMAIN statuses : OnProgress(o)) /\ OthersUnchanged("task")
    \/ (\E o \in DOMAIN statuses : OnComplete(o)) /\ OthersUnchanged("task")
    \/ (\E o \in DOMAIN statuses : OnCompleteExpire(o)) /\ OthersUnchanged("task")
    \/ drawStatusBar /\ OthersUnchanged("task")

InitTask == TaskInit /\ OthersIdle("task")

SpecTask == InitTask /\ [][TaskNext]_vars

\* C30: across any sequence of starting bulk conversions, tasks completing
\* (Finished, then Cancelled 8 seconds later) and the status bar deleting
\* Cancelled tasks, each newly started task is stored under a TaskID that
\* is not a key of the task map at that time, so that starting a task never
\* replaces the entry of a task that is still in the map.
C30_FreshTaskID ==
    taskRet.op = "Start" => taskRet.id \notin taskRet.keys

\* The same while the keys of the map are 0 .. len-1, as they are until the
\* status bar deletes a task that is not the last one started.
C30_FreshWhileDense ==
    (/\ taskRet.op = "Start"
     /\ taskRet.keys = 0..(Cardinality(taskRet.keys) - 1)) =>
        taskRet.id \notin taskRet.keys

\* Two tasks were started, the first was cancelled and deleted, and the
\* third was stored under TaskID 1, in place of the second, which is
\* running and is in the map no more.
C30_RunningTaskReplaced ==
    /\ taskRet.op = "Start"
    /\ taskRet.keys = {1}
    /\ taskRet.id = 1
    /\ Len(statuses) = 3
    /\ statuses[2].Status = "TaskRunning"
    /\ backgroundTasks = Store(<<>>, 1, 3)

====
